---- MODULE Spec2Model ----
(***************************************************************************)
(* A model of axum_doc (src/src/main.rs): the static walk of a router      *)
(* builder chain, the resolution of handlers and models, and the assembly  *)
(* of the OpenAPI document.                                                *)
(*                                                                         *)
(* Program text (paths, identifiers, type texts) is a sequence of          *)
(* one-character strings, so that the text operations of the code          *)
(* (starts_with, find, trim, split, format!, the two regular expressions)  *)
(* are computed as the code computes them.                                 *)
(***************************************************************************)
EXTENDS Naturals, Sequences, FiniteSets, TLC

(***************************************************************************)
(* Text                                                                    *)
(***************************************************************************)

\* The printable ASCII characters used by the program's texts, in code order.
Ascii ==
  << " ", "#", "$", "&", "'", "(", ")", "*", ",", "-", ".", "/",
     "0", "1", "2", "3", "4", "5", "6", "7", "8", "9",
     ":", ";", "<", "=", ">",
     "A", "B", "C", "D", "E", "F", "G", "H", "I", "J", "K", "L", "M",
     "N", "O", "P", "Q", "R", "S", "T", "U", "V", "W", "X", "Y", "Z",
     "[", "]", "_",
     "a", "b", "c", "d", "e", "f", "g", "h", "i", "j", "k", "l", "m",
     "n", "o", "p", "q", "r", "s", "t", "u", "v", "w", "x", "y", "z",
     "{", "}" >>

Upper == << "A", "B", "C", "D", "E", "F", "G", "H", "I", "J", "K", "L", "M",
            "N", "O", "P", "Q", "R", "S", "T", "U", "V", "W", "X", "Y", "Z" >>

Lower == << "a", "b", "c", "d", "e", "f", "g", "h", "i", "j", "k", "l", "m",
            "n", "o", "p", "q", "r", "s", "t", "u", "v", "w", "x", "y", "z" >>

Digits == { "0", "1", "2", "3", "4", "5", "6", "7", "8", "9" }

Range(s) == { s[i] : i \in 1..Len(s) }

IndexIn(s, c) == CHOOSE i \in 1..Len(s) : s[i] = c

\* The position of a character in the code order.
Code(c) == IndexIn(Ascii, c)

\* char::to_lowercase / char::to_uppercase on ASCII.
LowerChar(c) == IF c \in Range(Upper) THEN Lower[IndexIn(Upper, c)] ELSE c

UpperChar(c) == IF c \in Range(Lower) THEN Upper[IndexIn(Lower, c)] ELSE c

\* str::to_lowercase, str::to_uppercase.
ToLower(s) == [i \in 1..Len(s) |-> LowerChar(s[i])]

ToUpper(s) == [i \in 1..Len(s) |-> UpperChar(s[i])]

\* s[from..] and s[..to] of Rust, with 1-based inclusive positions.
From(s, i) == SubSeq(s, i, Len(s))

Upto(s, i) == SubSeq(s, 1, i)

\* str::starts_with, str::ends_with.
StartsWith(s, p) == Len(p) <= Len(s) /\ Upto(s, Len(p)) = p

EndsWith(s, p) == Len(p) <= Len(s) /\ From(s, Len(s) - Len(p) + 1) = p

\* str::contains for a non-empty pattern.
Contains(s, p) ==
  \E i \in 1..Len(s) : i + Len(p) - 1 <= Len(s) /\ SubSeq(s, i, i + Len(p) - 1) = p

\* str::find(char) and str::rfind(char): 0 stands for None.
Find(s, c) ==
  IF c \in Range(s) THEN CHOOSE i \in 1..Len(s) : s[i] = c /\ \A j \in 1..(i - 1) : s[j] # c
  ELSE 0

RFind(s, c) ==
  IF c \in Range(s)
  THEN CHOOSE i \in 1..Len(s) : s[i] = c /\ \A j \in (i + 1)..Len(s) : s[j] # c
  ELSE 0

\* str::trim: leading and trailing white space removed.
RECURSIVE TrimStart(_)
TrimStart(s) == IF Len(s) > 0 /\ s[1] = " " THEN TrimStart(Tail(s)) ELSE s

RECURSIVE TrimEnd(_)
TrimEnd(s) == IF Len(s) > 0 /\ s[Len(s)] = " " THEN TrimEnd(Upto(s, Len(s) - 1)) ELSE s

Trim(s) == TrimEnd(TrimStart(s))

\* str::trim_start_matches(p), str::trim_end_matches(p): every repetition goes.
RECURSIVE TrimStartMatches(_, _)
TrimStartMatches(s, p) ==
  IF Len(p) > 0 /\ StartsWith(s, p) THEN TrimStartMatches(From(s, Len(p) + 1), p) ELSE s

RECURSIVE TrimEndMatches(_, _)
TrimEndMatches(s, p) ==
  IF Len(p) > 0 /\ EndsWith(s, p) THEN TrimEndMatches(Upto(s, Len(s) - Len(p)), p) ELSE s

\* str::split(char): the pieces between the separators, empty pieces kept.
RECURSIVE Split(_, _)
Split(s, c) ==
  IF Find(s, c) = 0 THEN << s >>
  ELSE << Upto(s, Find(s, c) - 1) >> \o Split(From(s, Find(s, c) + 1), c)

\* The byte order of two texts (Ord for String), used by an ordered map.
RECURSIVE TextLess(_, _)
TextLess(a, b) ==
  IF Len(b) = 0 THEN FALSE
  ELSE IF Len(a) = 0 THEN TRUE
  ELSE IF a[1] # b[1] THEN Code(a[1]) < Code(b[1])
  ELSE TextLess(Tail(a), Tail(b))

\* [a, b, c].join(sep)
RECURSIVE Join(_, _)
Join(parts, sep) ==
  IF Len(parts) = 0 THEN << >>
  ELSE IF Len(parts) = 1 THEN parts[1]
  ELSE parts[1] \o sep \o Join(Tail(parts), sep)

(***************************************************************************)
(* JSON objects with computed keys (serde_json::Map, a BTreeMap): a        *)
(* sequence of entries [k, v] kept in the byte order of the keys, which is *)
(* the order the serializer writes them in.  Objects written with the      *)
(* json! macro from fixed keys are records.                                *)
(***************************************************************************)

JKeys(m) == { m[i].k : i \in 1..Len(m) }

JHas(m, k) == k \in JKeys(m)

JGet(m, k) == m[CHOOSE i \in 1..Len(m) : m[i].k = k].v

\* Map::insert / IndexMut: replaces the value of a present key, otherwise
\* adds the entry at its place in the key order.
JInsert(m, k, v) ==
  IF JHas(m, k)
  THEN [i \in 1..Len(m) |-> IF m[i].k = k THEN [k |-> k, v |-> v] ELSE m[i]]
  ELSE LET before == SelectSeq(m, LAMBDA e : TextLess(e.k, k))
           after  == SelectSeq(m, LAMBDA e : TextLess(k, e.k))
       IN  before \o << [k |-> k, v |-> v] >> \o after

\* A record with one more key (the IndexMut of a json! object).
WithKey(rec, key, v) ==
  [x \in DOMAIN rec \cup {key} |-> IF x = key THEN v ELSE rec[x]]

(***************************************************************************)
(* The type mapping: rust_type_to_openapi                                  *)
(***************************************************************************)

RefStatic1 == << "&", "'", "s", "t", "a", "t", "i", "c", " " >>

RefStatic2 == << "&", " ", "'", "s", "t", "a", "t", "i", "c", " " >>

RefStatic3 == << "&", "'", "s", "t", "a", "t", "i", "c" >>

RefSp == << "&", " " >>

Amp == << "&" >>

MutSp == << "m", "u", "t", " " >>

TVec == << "V", "e", "c" >>

TStdVec == << "s", "t", "d", ":", ":", "v", "e", "c", ":", ":", "V", "e", "c" >>

TOption == << "O", "p", "t", "i", "o", "n" >>

TStdOption == << "s", "t", "d", ":", ":", "o", "p", "t", "i", "o", "n", ":", ":", "O", "p", "t", "i", "o", "n" >>

THashMap == << "H", "a", "s", "h", "M", "a", "p" >>

TStdHashMap == << "s", "t", "d", ":", ":", "c", "o", "l", "l", "e", "c", "t", "i", "o", "n", "s", ":", ":", "H", "a", "s", "h", "M", "a", "p" >>

TString == << "S", "t", "r", "i", "n", "g" >>

TRefStr == << "&", "s", "t", "r" >>

TStr == << "s", "t", "r" >>

TF32 == << "f", "3", "2" >>

TF64 == << "f", "6", "4" >>

TBool == << "b", "o", "o", "l" >>

TUuid == << "U", "u", "i", "d" >>

TDateTime == << "D", "a", "t", "e", "T", "i", "m", "e" >>

TChrono == << "c", "h", "r", "o", "n", "o" >>

TDuration == << "D", "u", "r", "a", "t", "i", "o", "n" >>

TDurationLc == << "d", "u", "r", "a", "t", "i", "o", "n" >>

RefPrefix == << "#", "/", "c", "o", "m", "p", "o", "n", "e", "n", "t", "s", "/", "s", "c", "h", "e", "m", "a", "s", "/" >>

Int32Names ==
  { << "i", "8" >>,
    << "u", "8" >>,
    << "i", "1", "6" >>,
    << "u", "1", "6" >>,
    << "i", "3", "2" >>,
    << "u", "3", "2" >> }

\* Int64Names without the pointer-sized unsigned integer.
Int64NamesNarrow ==
  { << "i", "6", "4" >>,
    << "u", "6", "4" >>,
    << "i", "s", "i", "z", "e" >> }

Int64Names ==
  { << "i", "6", "4" >>,
    << "u", "6", "4" >>,
    << "i", "s", "i", "z", "e" >>,
    << "u", "s", "i", "z", "e" >> }

\* CleanType that only trims the white space.
CleanTypeKeepsMarkers(ty) == Trim(ty)

\* The reference and mutability markers stripped first (main.rs 561-568).
CleanType(ty) ==
  Trim(TrimStartMatches(TrimStartMatches(TrimStartMatches(TrimStartMatches(
       TrimStartMatches(TrimStartMatches(Trim(ty),
         RefStatic1), RefStatic2), RefStatic3), RefSp), Amp), MutSp))

\* The text before the first '<' and the text between it and the last '>'
\* (to the end when there is no '>').
OuterType(clean) == Upto(clean, Find(clean, "<") - 1)

InnerType(clean) ==
  SubSeq(clean, Find(clean, "<") + 1,
         IF RFind(clean, ">") = 0 THEN Len(clean) ELSE RFind(clean, ">") - 1)

\* The match on the simple type names, the name fragments and the models.
SimpleTypeToOpenapi(clean, models) ==
  IF clean \in { TString, TRefStr, TStr } THEN [type |-> "string"]
  ELSE IF clean \in Int32Names THEN [type |-> "integer", format |-> "int32"]
  ELSE IF clean \in Int64Names THEN [type |-> "integer", format |-> "int64"]
  ELSE IF clean = TF32 THEN [type |-> "number", format |-> "float"]
  ELSE IF clean = TF64 THEN [type |-> "number", format |-> "double"]
  ELSE IF clean = TBool THEN [type |-> "boolean"]
  ELSE IF Contains(clean, TUuid)
    THEN [type |-> "string", format |-> "uuid",
          example |-> "550e8400-e29b-41d4-a716-446655440000"]
  ELSE IF Contains(clean, TDateTime) \/ Contains(clean, TChrono)
    THEN [type |-> "string", format |-> "date-time", example |-> "2024-01-01T00:00:00Z"]
  ELSE IF Contains(clean, TDuration) \/ Contains(clean, TDurationLc)
    THEN [type |-> "string", format |-> "duration"]
  ELSE IF clean \in DOMAIN models
    THEN ("$ref" :> (RefPrefix \o models[clean].name))
  ELSE [type |-> "object"]

RECURSIVE rust_type_to_openapi(_, _)
rust_type_to_openapi(ty, models) ==
  LET clean == CleanType(ty)
      outer == OuterType(clean)
      inner == InnerType(clean)
      parts == Split(inner, ",")
  IN  IF Find(clean, "<") = 0 THEN SimpleTypeToOpenapi(clean, models)
      ELSE IF outer \in { TVec, TStdVec }
        THEN [type |-> "array", items |-> rust_type_to_openapi(inner, models)]
      ELSE IF outer \in { TOption, TStdOption }
        THEN WithKey(rust_type_to_openapi(inner, models), "nullable", TRUE)
      ELSE IF outer \in { THashMap, TStdHashMap } /\ Len(parts) = 2
        THEN [type |-> "object",
              additionalProperties |-> rust_type_to_openapi(Trim(parts[2]), models)]
      ELSE SimpleTypeToOpenapi(clean, models)

(***************************************************************************)
(* Path parameters: extract_path_params                                    *)
(***************************************************************************)

\* [a-zA-Z0-9_]
WordChar(c) == c \in Range(Upper) \cup Range(Lower) \cup Digits \cup { "_" }

\* The last position of the run of word characters that starts at i.
RECURSIVE WordRunEnd(_, _)
WordRunEnd(s, i) ==
  IF i + 1 <= Len(s) /\ WordChar(s[i + 1]) THEN WordRunEnd(s, i + 1) ELSE i

\* COLON_RE.captures_iter: the names of the matches of :([a-zA-Z0-9_]+),
\* leftmost first, not overlapping.
RECURSIVE ColonCaptures(_, _)
ColonCaptures(s, i) ==
  IF i > Len(s) THEN << >>
  ELSE IF s[i] = ":" /\ i + 1 <= Len(s) /\ WordChar(s[i + 1])
    THEN << SubSeq(s, i + 1, WordRunEnd(s, i + 1)) >>
         \o ColonCaptures(s, WordRunEnd(s, i + 1) + 1)
  ELSE ColonCaptures(s, i + 1)

\* BRACE_RE.captures_iter: the names of the matches of \{([a-zA-Z0-9_]+)\}.
RECURSIVE BraceCaptures(_, _)
BraceCaptures(s, i) ==
  IF i > Len(s) THEN << >>
  ELSE IF /\ s[i] = "{" /\ i + 1 <= Len(s) /\ WordChar(s[i + 1])
          /\ WordRunEnd(s, i + 1) + 1 <= Len(s)
          /\ s[WordRunEnd(s, i + 1) + 1] = "}"
    THEN << SubSeq(s, i + 1, WordRunEnd(s, i + 1)) >>
         \o BraceCaptures(s, WordRunEnd(s, i + 1) + 2)
  ELSE BraceCaptures(s, i + 1)

\* One parameter object per collected name (main.rs 703-710).
PathParam(name) ==
  [name |-> name, in |-> "path", required |-> TRUE, schema |-> [type |-> "string"]]

extract_path_params(route_path) ==
  LET param_names == ColonCaptures(route_path, 1) \o BraceCaptures(route_path, 1)
  IN  [i \in 1..Len(param_names) |-> PathParam(param_names[i])]

(***************************************************************************)
(* Syntax trees (the values of the syn crate the code inspects)            *)
(***************************************************************************)

\* Option<T>
None == [some |-> FALSE]

Some(x) == [some |-> TRUE, v |-> x]

\* syn::Expr: a string literal, a path, a call f(args), a method call
\* recv.m(args), and any expression without sub-expressions of interest.
Lit(s) == [k |-> "lit", s |-> s]

PathE(segs) == [k |-> "path", segs |-> segs]

CallE(func, args) == [k |-> "call", func |-> func, args |-> args]

MethodCall(recv, m, args) == [k |-> "mcall", recv |-> recv, m |-> m, args |-> args]

OtherE == [k |-> "other"]

\* syn::Type: a path with generic arguments per segment, a reference, a tuple.
Seg(ident, args) == [ident |-> ident, args |-> args]

TPath(segs) == [k |-> "path", segs |-> segs]

TRef(lt, mut, elem) == [k |-> "ref", lt |-> lt, mut |-> mut, elem |-> elem]

TTuple(elems) == [k |-> "tuple", elems |-> elems]

\* A type named by one identifier, and one generic over its arguments.
TName(ident) == TPath(<< Seg(ident, << >>) >>)

TGen(ident, args) == TPath(<< Seg(ident, args) >>)

\* Type::to_token_stream().to_string(): the tokens separated by one space,
\* "::" and a lifetime each written as one token.
RECURSIVE RenderType(_)
RenderType(ty) ==
  LET RenderSeg(sg) ==
        IF Len(sg.args) = 0 THEN sg.ident
        ELSE sg.ident \o << " ", "<", " " >>
             \o Join([i \in 1..Len(sg.args) |-> RenderType(sg.args[i])], << " ", ",", " " >>)
             \o << " ", ">" >>
  IN  IF ty.k = "path"
        THEN Join([i \in 1..Len(ty.segs) |-> RenderSeg(ty.segs[i])], << " ", ":", ":", " " >>)
      ELSE IF ty.k = "ref"
        THEN << "&", " " >>
             \o (IF Len(ty.lt) > 0 THEN << "'" >> \o ty.lt \o << " " >> ELSE << >>)
             \o (IF ty.mut THEN MutSp ELSE << >>)
             \o RenderType(ty.elem)
      ELSE << "(" >>
           \o Join([i \in 1..Len(ty.elems) |-> RenderType(ty.elems[i])], << " ", ",", " " >>)
           \o << ")" >>

(***************************************************************************)
(* The argument parsers of the route walk                                  *)
(***************************************************************************)

parse_string_arg(expr) == IF expr.k = "lit" THEN Some(expr.s) ELSE None

parse_method(expr) ==
  IF expr.k = "call" /\ expr.func.k = "path"
  THEN Some(expr.func.segs[Len(expr.func.segs)])
  ELSE None

parse_handler_name(expr) ==
  IF expr.k = "call" /\ Len(expr.args) > 0 /\ expr.args[1].k = "path"
  THEN Some(expr.args[1].segs[Len(expr.args[1].segs)])
  ELSE None

parse_nest_handler(expr) ==
  IF expr.k = "call" /\ expr.func.k = "path" THEN Some(expr.func.segs[1])
  ELSE IF expr.k = "path" THEN Some(expr.segs[1])
  ELSE None

parse_merge_handler(expr) ==
  IF expr.k = "call" /\ expr.func.k = "path" THEN Some(expr.func.segs[1])
  ELSE IF expr.k = "path" THEN Some(expr.segs[1])
  ELSE None

(***************************************************************************)
(* Module paths and module files                                           *)
(***************************************************************************)

SrcDir == << "s", "r", "c" >>

DotRs == << ".", "r", "s" >>

ModRs == << "m", "o", "d", ".", "r", "s" >>

MainRs == << "m", "a", "i", "n", ".", "r", "s" >>

LibRs == << "l", "i", "b", ".", "r", "s" >>

HandlersRs == << "h", "a", "n", "d", "l", "e", "r", "s", ".", "r", "s" >>

HandlerRs == << "h", "a", "n", "d", "l", "e", "r", ".", "r", "s" >>

UnderHandlerRs == << "_", "h", "a", "n", "d", "l", "e", "r", ".", "r", "s" >>

RouterName == << "r", "o", "u", "t", "e", "r" >>

\* A file path is the sequence of its components below the base directory.
calculate_module_path(current, module_name) == Append(current, module_name)

\* The last component of a path with a suffix added to it: format!("{}.rs").
WithSuffix(path, suffix) ==
  [i \in 1..Len(path) |-> IF i = Len(path) THEN path[i] \o suffix ELSE path[i]]

\* ModuleFilePaths with the flat file looked for first.
ModuleFilePathsFlatFirst(module_path) ==
  << << SrcDir >> \o WithSuffix(module_path, DotRs),
     << SrcDir >> \o module_path \o << HandlersRs >>,
     << SrcDir >> \o module_path \o << ModRs >> >>

\* The three places a module's router is looked for, in order
\* (main.rs 114-118).
ModuleFilePaths(module_path) ==
  << << SrcDir >> \o module_path \o << HandlersRs >>,
     << SrcDir >> \o module_path \o << ModRs >>,
     << SrcDir >> \o WithSuffix(module_path, DotRs) >>

\* The four places a module's handlers are looked for, in order
\* (main.rs 1078-1083).
HandlerFilePaths(module_path) ==
  << << SrcDir >> \o WithSuffix(module_path, UnderHandlerRs),
     << SrcDir >> \o module_path \o << HandlersRs >>,
     << SrcDir >> \o module_path \o << HandlerRs >>,
     << SrcDir >> \o WithSuffix(module_path, DotRs) >>

\* The components after a leading "src", without the module definition
\* files, each without its ".rs" endings, the empty ones dropped.
extract_module_from_path(file_path) ==
  LET rel   == IF Len(file_path) > 0 /\ file_path[1] = SrcDir THEN Tail(file_path)
               ELSE file_path
      kept  == SelectSeq(rel, LAMBDA c : c \notin { ModRs, MainRs, LibRs })
      names == [i \in 1..Len(kept) |-> TrimEndMatches(kept[i], DotRs)]
  IN  SelectSeq(names, LAMBDA c : Len(c) > 0)

\* The first of the paths that exists in the file system; 0 when none does.
FirstExisting(files, paths) ==
  IF \E i \in 1..Len(paths) : paths[i] \in DOMAIN files
  THEN CHOOSE i \in 1..Len(paths) :
         paths[i] \in DOMAIN files /\ \A j \in 1..(i - 1) : paths[j] \notin DOMAIN files
  ELSE 0

\* The path of the first candidate that exists, as an Option.
FirstExistingPath(files, paths) ==
  IF FirstExisting(files, paths) = 0 THEN [some |-> FALSE]
  ELSE [some |-> TRUE, v |-> paths[FirstExisting(files, paths)]]

(***************************************************************************)
(* Source files.  A file of the tree is [st, items]: st is "ok",           *)
(* "unreadable" (it exists and read_to_string fails) or "unparseable"      *)
(* (parse_file fails); items are its top-level items in order:             *)
(*   [kind |-> "fn", name, docs, params, ret, stmts]                       *)
(*   [kind |-> "struct", name, shape, fields]                              *)
(* A statement is [kind |-> "expr" | "local", e].                          *)
(***************************************************************************)

FnItem(name, docs, params, ret, stmts) ==
  [kind |-> "fn", name |-> name, docs |-> docs, params |-> params, ret |-> ret,
   stmts |-> stmts]

StructItem(name, shape, fields) ==
  [kind |-> "struct", name |-> name, shape |-> shape, fields |-> fields]

ExprStmt(e) == [kind |-> "expr", e |-> e]

LocalStmt(e) == [kind |-> "local", e |-> e]

\* A doc attribute: #[doc = "text"] (what /// text becomes) or #[doc(tokens)].
DocLine(text) == [form |-> "nv", text |-> text]

DocList(tokens) == [form |-> "list", text |-> tokens]

(***************************************************************************)
(* Handler Extractor: parse_handler, parse_extractor_type                  *)
(***************************************************************************)

KJson == << "J", "s", "o", "n" >>

KQuery == << "Q", "u", "e", "r", "y" >>

KPath == << "P", "a", "t", "h" >>

KForm == << "F", "o", "r", "m" >>

ExtractorNames == { KJson, KQuery, KPath, KForm }

parse_extractor_type(ty) ==
  IF /\ ty.k = "path"
     /\ ty.segs[Len(ty.segs)].ident \in ExtractorNames
     /\ Len(ty.segs[Len(ty.segs)].args) > 0
  THEN Some([kind |-> ty.segs[Len(ty.segs)].ident,
             inner_type |-> ty.segs[Len(ty.segs)].args[1]])
  ELSE None

\* DocContent that keeps the text as written.
DocContentUntrimmed(doc) ==
  IF doc.form = "nv"
  THEN IF Len(doc.text) > 0 THEN Some(doc.text) ELSE None
  ELSE None

\* The text one doc attribute contributes; None when it contributes nothing.
DocContent(doc) ==
  IF doc.form = "nv"
  THEN IF Len(Trim(doc.text)) > 0 THEN Some(Trim(doc.text)) ELSE None
  ELSE LET start == Find(doc.text, "\"")
           end   == RFind(doc.text, "\"")
       IN  IF start # 0 /\ start < end /\ end - start > 1
           THEN Some(Trim(SubSeq(doc.text, start + 1, end - 1)))
           ELSE None

\* The collected doc_comments of a function.
RECURSIVE DocComments(_)
DocComments(docs) ==
  IF Len(docs) = 0 THEN << >>
  ELSE (IF DocContent(docs[1]).some THEN << DocContent(docs[1]).v >> ELSE << >>)
       \o DocComments(Tail(docs))

\* The extractors among the typed parameters, in order.
RECURSIVE Extractors(_)
Extractors(params) ==
  IF Len(params) = 0 THEN << >>
  ELSE (IF parse_extractor_type(params[1]).some
        THEN << parse_extractor_type(params[1]).v >> ELSE << >>)
       \o Extractors(Tail(params))

HandlerInfoOf(func) ==
  LET doc_comments == DocComments(func.docs)
      non_empty    == SelectSeq(Tail(doc_comments), LAMBDA d : Len(d) > 0)
  IN  [params      |-> Extractors(func.params),
       return_type |-> func.ret,
       summary     |-> IF Len(doc_comments) > 0 THEN Some(doc_comments[1]) ELSE None,
       description |-> IF Len(doc_comments) > 1 /\ Len(non_empty) > 0
                       THEN Some(Join(non_empty, << "\n" >>)) ELSE None]

\* The first top-level function of that name in a file that parses.
parse_handler(file, handler_name) ==
  LET fns == SelectSeq(file.items, LAMBDA it : it.kind = "fn" /\ it.name = handler_name)
  IN  IF file.st = "ok" /\ Len(fns) > 0 THEN Some(HandlerInfoOf(fns[1])) ELSE None

(***************************************************************************)
(* Model Extractor: parse_models                                           *)
(***************************************************************************)

DigitChars == << "0", "1", "2", "3", "4", "5", "6", "7", "8", "9" >>

\* The decimal text of a number: format!("{}", index).
RECURSIVE IntText(_)
IntText(n) ==
  IF n < 10 THEN << DigitChars[n + 1] >>
  ELSE IntText(n \div 10) \o << DigitChars[(n % 10) + 1] >>

\* The FieldInfo list of one struct item.
StructFields(item) ==
  IF item.shape = "named"
    THEN [i \in 1..Len(item.fields) |->
            [name |-> item.fields[i].name, ty |-> RenderType(item.fields[i].ty)]]
  ELSE IF item.shape = "tuple"
    THEN [i \in 1..Len(item.fields) |->
            [name |-> << "_" >> \o IntText(i - 1), ty |-> RenderType(item.fields[i].ty)]]
  ELSE << >>

\* HashMap::insert
MapInsert(map, key, v) ==
  [x \in DOMAIN map \cup {key} |-> IF x = key THEN v ELSE map[x]]

\* MapExtend that keeps the entries the map already has.
MapExtendKeepFirst(map, more) ==
  [x \in DOMAIN map \cup DOMAIN more |-> IF x \in DOMAIN map THEN map[x] ELSE more[x]]

\* HashMap::extend: every entry of the second map is inserted.
MapExtend(map, more) ==
  [x \in DOMAIN map \cup DOMAIN more |-> IF x \in DOMAIN more THEN more[x] ELSE map[x]]

EmptyMap == << >>

RECURSIVE InsertStructs(_, _)
InsertStructs(structs, items) ==
  IF Len(items) = 0 THEN structs
  ELSE InsertStructs(
         IF items[1].kind = "struct"
         THEN MapInsert(structs, items[1].name,
                        [name |-> items[1].name, fields |-> StructFields(items[1])])
         ELSE structs,
         Tail(items))

parse_models(file) ==
  IF file.st = "ok" THEN InsertStructs(EmptyMap, file.items) ELSE EmptyMap

(***************************************************************************)
(* Spec Assembler                                                          *)
(***************************************************************************)

\* The last segment's name, or the name of its first generic argument when
\* that is a path itself; any other type by its token text.
get_type_name(ty) ==
  IF ty.k = "path"
  THEN LET last == ty.segs[Len(ty.segs)]
       IN  IF Len(last.args) > 0 /\ last.args[1].k = "path"
           THEN last.args[1].segs[Len(last.args[1].segs)].ident
           ELSE last.ident
  ELSE RenderType(ty)

\* properties[&field.name] = rust_type_to_openapi(&field.ty, models), per field.
RECURSIVE Properties(_, _, _)
Properties(props, fields, models) ==
  IF Len(fields) = 0 THEN props
  ELSE Properties(JInsert(props, fields[1].name, rust_type_to_openapi(fields[1].ty, models)),
                  Tail(fields), models)

StructSchema(info, models) ==
  [type |-> "object", properties |-> Properties(<< >>, info.fields, models)]

\* PutSchema into a dictionary that keeps its entries in the order of their
\* insertion.
PutSchemaAppend(schemas, name, schema) ==
  IF JHas(schemas, name) THEN JInsert(schemas, name, schema)
  ELSE Append(schemas, [k |-> name, v |-> schema])

\* Entry `name` of the schema dictionary put into `schemas`
\* (main.rs 681-684).
PutSchema(schemas, name, schema) == JInsert(schemas, name, schema)

\* generate_schemas, iterating models.values() in the order `order` (the
\* iteration order of a HashMap is arbitrary): order is a sequence of the
\* keys of models.
RECURSIVE SchemasFrom(_, _, _)
SchemasFrom(schemas, order, models) ==
  IF Len(order) = 0 THEN schemas
  ELSE SchemasFrom(
         PutSchema(schemas, models[order[1]].name, StructSchema(models[order[1]], models)),
         Tail(order), models)

generate_schemas(models, order) == SchemasFrom(<< >>, order, models)

\* The sequences that list every element of a set once.
Orders(S) ==
  { o \in [1..Cardinality(S) -> S] : \A i, j \in 1..Cardinality(S) : o[i] = o[j] => i = j }

\* kind.to_lowercase() of the two parameter kinds, as the JSON word.
LocationWord(kind) == IF ToLower(kind) = ToLower(KPath) THEN "path" ELSE "query"

\* The parameter objects of one Path or Query extractor's structure.
DeclaredParams(kind, struct_info, models) ==
  [i \in 1..Len(struct_info.fields) |->
     [name     |-> struct_info.fields[i].name,
      in       |-> LocationWord(kind),
      required |-> ~StartsWith(struct_info.fields[i].ty, TOption),
      schema   |-> rust_type_to_openapi(struct_info.fields[i].ty, models)]]

RefSchema(type_name) == ("$ref" :> (RefPrefix \o type_name))

RequestBody(type_name) ==
  [content |-> ("application/json" :> [schema |-> RefSchema(type_name)])]

\* process_handler_params: the loop over the extractors, threading
\* [parameters, request_body].
RECURSIVE ProcessParams(_, _, _)
ProcessParams(acc, extractors, models) ==
  IF Len(extractors) = 0 THEN acc
  ELSE LET ex        == extractors[1]
           type_name == get_type_name(ex.inner_type)
           next ==
             IF type_name \notin DOMAIN models THEN acc
             ELSE IF ex.kind \in { KPath, KQuery }
               THEN [acc EXCEPT !.parameters =
                       @ \o DeclaredParams(ex.kind, models[type_name], models)]
             ELSE IF ex.kind \in { KJson, KForm }
               THEN [acc EXCEPT !.request_body = Some(RequestBody(type_name))]
             ELSE acc
       IN  ProcessParams(next, Tail(extractors), models)

process_handler_params(handler, models) ==
  ProcessParams([parameters |-> << >>, request_body |-> None], handler.params, models)

SuccessResponse(schema) ==
  [description |-> "Successful response",
   content |-> ("application/json" :> [schema |-> schema])]

EmptyObject == << >>

generate_response(handler, models) ==
  IF ~handler.return_type.some THEN EmptyObject
  ELSE LET type_name == get_type_name(handler.return_type.v)
       IN  IF type_name \in DOMAIN models
           THEN ("200" :> SuccessResponse(RefSchema(type_name)))
           ELSE ("200" :> SuccessResponse(
                   rust_type_to_openapi(RenderType(handler.return_type.v), models)))

\* The auto-derived path parameters whose name no declared parameter has.
MergeParams(parameters, path_params) ==
  parameters
  \o SelectSeq(path_params,
               LAMBDA q : q.name \notin { parameters[i].name : i \in 1..Len(parameters) })

build_operation(route, handler, models) ==
  LET path_params == extract_path_params(route.path)
      processed   == process_handler_params(handler, models)
      responses   == generate_response(handler, models)
      parameters  == MergeParams(processed.parameters, path_params)
      summary     == IF handler.summary.some THEN handler.summary.v
                     ELSE ToUpper(route.method) \o << " " >> \o route.handler
      op0 == [summary |-> summary, operationId |-> route.handler, responses |-> responses]
      op1 == IF handler.description.some
             THEN WithKey(op0, "description", handler.description.v) ELSE op0
      op2 == IF Len(parameters) > 0 THEN WithKey(op1, "parameters", parameters) ELSE op1
      op3 == IF processed.request_body.some
             THEN WithKey(op2, "requestBody", processed.request_body.v) ELSE op2
  IN  IF route.module.some THEN WithKey(op3, "tags", << route.module.v >>) ELSE op3

\* PutOperation that keeps the operation a path and method already have.
PutOperationKeepFirst(paths, route, operation) ==
  LET entry == IF JHas(paths, route.path) THEN JGet(paths, route.path) ELSE << >>
  IN  IF JHas(entry, ToLower(route.method)) THEN paths
      ELSE JInsert(paths, route.path, JInsert(entry, ToLower(route.method), operation))

\* path_entry.insert(method.to_lowercase(), operation) on the entry of the
\* route's path, created empty when absent (main.rs 880-895).
PutOperation(paths, route, operation) ==
  LET entry == IF JHas(paths, route.path) THEN JGet(paths, route.path) ELSE << >>
  IN  JInsert(paths, route.path, JInsert(entry, ToLower(route.method), operation))

\* The loop over the routes of generate_openapi.
RECURSIVE PathsFrom(_, _, _, _)
PathsFrom(paths, routes, handlers, models) ==
  IF Len(routes) = 0 THEN paths
  ELSE PathsFrom(
         IF routes[1].handler \in DOMAIN handlers
         THEN PutOperation(paths, routes[1],
                           build_operation(routes[1], handlers[routes[1].handler], models))
         ELSE paths,
         Tail(routes), handlers, models)

generate_openapi(routes, handlers, models, order) ==
  [openapi    |-> "3.0.0",
   info       |-> [title |-> "Generated API", version |-> "1.0.0",
                   description |->
                     "Auto-generated OpenAPI specification from Axum routes"],
   paths      |-> PathsFrom(<< >>, routes, handlers, models),
   components |-> [schemas |-> generate_schemas(models, order)]]

(***************************************************************************)
(* The run: main, and the route walk of RouterVisitor as a stack of        *)
(* pending visits (the recursion of the visitor made explicit).            *)
(***************************************************************************)

VARIABLES
  world,            \* the command line and the source tree, read only
  pc,               \* where main is
  err,              \* why the run failed, "" while it has not
  routes,           \* RouterVisitor.routes
  state_stack,      \* RouterVisitor.state_stack
  current_module,   \* RouterVisitor.current_module
  work,             \* the visits still to make, the next one first
  diagnostics,      \* the warnings and notices printed so far
  idx,              \* the position of the loop main is in
  handlers,         \* main's handlers map
  module_handlers,  \* main's module_handlers map
  all_models,       \* main's all_models map
  openapi,          \* the assembled document
  output,           \* the content of the output file
  fin,              \* the argument of a function applied on its own
  fout              \* its result

vars ==
  << world, pc, err, routes, state_stack, current_module, work, diagnostics, idx,
     handlers, module_handlers, all_models, openapi, output, fin, fout >>

walker == << routes, state_stack, current_module, work >>

tables == << handlers, module_handlers, all_models >>

results == << openapi, output >>

pure == << fin, fout >>

MRoute == << "r", "o", "u", "t", "e" >>

MNest == << "n", "e", "s", "t" >>

MMerge == << "m", "e", "r", "g", "e" >>

ExprTask(e) == [t |-> "expr", e |-> e]

ExprTasks(es) == [i \in 1..Len(es) |-> ExprTask(es[i])]

Warn(kind, what) == [kind |-> kind, what |-> what]

\* The statements of every function of a file, in order (what visit_file
\* reaches in a file of functions).
RECURSIVE FileExprs(_)
FileExprs(items) ==
  IF Len(items) = 0 THEN << >>
  ELSE (IF items[1].kind = "fn"
        THEN [i \in 1..Len(items[1].stmts) |-> items[1].stmts[i].e] ELSE << >>)
       \o FileExprs(Tail(items))

\* The last statement of every function named router, when it is an
\* expression (main.rs 129-137).
RECURSIVE RouterExprs(_)
RouterExprs(items) ==
  IF Len(items) = 0 THEN << >>
  ELSE (IF /\ items[1].kind = "fn" /\ items[1].name = RouterName
           /\ Len(items[1].stmts) > 0
           /\ items[1].stmts[Len(items[1].stmts)].kind = "expr"
        THEN << items[1].stmts[Len(items[1].stmts)].e >> ELSE << >>)
       \o RouterExprs(Tail(items))

HandlerFile == world.files[world.handler_file]

Fail(cause) ==
  /\ pc' = "failed"
  /\ err' = cause

\* main.rs 1022-1025
FailBaseDir ==
  /\ pc = "start"
  /\ ~world.base_exists
  /\ Fail("base directory does not exist")
  /\ UNCHANGED << world, walker, diagnostics, idx, tables, results, pure >>

\* main.rs 1028-1031
FailHandlerMissing ==
  /\ pc = "start"
  /\ world.base_exists
  /\ world.handler_file \notin DOMAIN world.files
  /\ Fail("handler file does not exist")
  /\ UNCHANGED << world, walker, diagnostics, idx, tables, results, pure >>

\* main.rs 1051: fs::read_to_string(&handler_path)?
FailHandlerRead ==
  /\ pc = "start"
  /\ world.base_exists
  /\ world.handler_file \in DOMAIN world.files
  /\ HandlerFile.st = "unreadable"
  /\ Fail("handler file cannot be read")
  /\ diagnostics' = diagnostics
                    \o (IF Len(world.model_files) = 0
                        THEN << Warn("no model files", << >>) >> ELSE << >>)
  /\ UNCHANGED << world, walker, idx, tables, results, pure >>

\* main.rs 1052: parse_file(&router_content)?
FailHandlerParse ==
  /\ pc = "start"
  /\ world.base_exists
  /\ world.handler_file \in DOMAIN world.files
  /\ HandlerFile.st = "unparseable"
  /\ Fail("handler file cannot be parsed")
  /\ diagnostics' = diagnostics
                    \o (IF Len(world.model_files) = 0
                        THEN << Warn("no model files", << >>) >> ELSE << >>)
  /\ UNCHANGED << world, walker, idx, tables, results, pure >>

\* main.rs 1019-1063: the checks pass, the visitor is built and visit_file
\* begins.
StartWalk ==
  /\ pc = "start"
  /\ world.base_exists
  /\ world.handler_file \in DOMAIN world.files
  /\ HandlerFile.st = "ok"
  /\ pc' = "walk"
  /\ routes' = << >>
  /\ state_stack' = << >>
  /\ current_module' = extract_module_from_path(world.handler_file)
  /\ work' = ExprTasks(FileExprs(HandlerFile.items))
  /\ diagnostics' = diagnostics
                    \o (IF Len(world.model_files) = 0
                        THEN << Warn("no model files", << >>) >> ELSE << >>)
  /\ UNCHANGED << world, err, idx, tables, results, pure >>

Walking == pc = "walk" /\ Len(work) > 0

\* VisitMethodCall that interprets the call before its receiver.
VisitMethodCallLate ==
  /\ Walking
  /\ work[1].t = "expr"
  /\ work[1].e.k = "mcall"
  /\ work' = << [t |-> "call", e |-> work[1].e], ExprTask(work[1].e.recv) >> \o Tail(work)
  /\ UNCHANGED << world, pc, err, routes, state_stack, current_module, diagnostics, idx,
                  tables, results, pure >>

\* visit_expr_method_call, first line: the receiver is visited before the
\* call itself is interpreted (main.rs 159-162).
VisitMethodCall ==
  /\ Walking
  /\ work[1].t = "expr"
  /\ work[1].e.k = "mcall"
  /\ work' = << ExprTask(work[1].e.recv), [t |-> "call", e |-> work[1].e] >> \o Tail(work)
  /\ UNCHANGED << world, pc, err, routes, state_stack, current_module, diagnostics, idx,
                  tables, results, pure >>

\* The default visitor on any other expression: a call's function and
\* arguments are visited in order, the other expressions hold nothing.
VisitOtherExpr ==
  /\ Walking
  /\ work[1].t = "expr"
  /\ work[1].e.k # "mcall"
  /\ work' = (IF work[1].e.k = "call"
              THEN << ExprTask(work[1].e.func) >> \o ExprTasks(work[1].e.args)
              ELSE << >>) \o Tail(work)
  /\ UNCHANGED << world, pc, err, routes, state_stack, current_module, diagnostics, idx,
                  tables, results, pure >>

\* The prefix in force: the top of the context stack, or "".
CurrentBasePath == IF Len(state_stack) > 0 THEN state_stack[Len(state_stack)].bp ELSE << >>

\* FullPath with the separator inserted under every prefix.
FullPathAlwaysSlash(current_base_path, path) ==
  IF Len(current_base_path) = 0 THEN path
  ELSE current_base_path \o << "/" >> \o path

\* main.rs 178-184
FullPath(current_base_path, path) ==
  IF Len(current_base_path) = 0 THEN path
  ELSE IF StartsWith(path, << "/" >>) THEN current_base_path \o path
  ELSE current_base_path \o << "/" >> \o path

\* NewBasePath with a separator between the prefixes.
NewBasePathSeparated(current_base_path, path_prefix) ==
  IF Len(current_base_path) = 0 THEN path_prefix
  ELSE current_base_path \o << "/" >> \o path_prefix

\* NewBasePath with the slashes of the first prefix trimmed.
NewBasePathTrimmed(current_base_path, path_prefix) ==
  IF Len(current_base_path) = 0 THEN TrimStartMatches(path_prefix, << "/" >>)
  ELSE current_base_path \o path_prefix

\* main.rs 209-213
NewBasePath(current_base_path, path_prefix) ==
  IF Len(current_base_path) = 0 THEN path_prefix ELSE current_base_path \o path_prefix

OnCall(m) ==
  /\ Walking
  /\ work[1].t = "call"
  /\ work[1].e.m = m

\* call.args[1] on a route call of fewer than two arguments panics, which
\* ends the process (main.rs 166-167, reached at 270-295).
RoutePanic ==
  /\ OnCall(MRoute)
  /\ Len(work[1].e.args) < 2
  /\ Fail("panic: index out of bounds")
  /\ UNCHANGED << world, walker, diagnostics, idx, tables, results, pure >>

\* The same on a nest call (main.rs 198-199, 297-299).
NestPanic ==
  /\ OnCall(MNest)
  /\ Len(work[1].e.args) < 2
  /\ Fail("panic: index out of bounds")
  /\ UNCHANGED << world, walker, diagnostics, idx, tables, results, pure >>

\* The same on a merge call without an argument (main.rs 230, 318-320).
MergePanic ==
  /\ OnCall(MMerge)
  /\ Len(work[1].e.args) < 1
  /\ Fail("panic: index out of bounds")
  /\ UNCHANGED << world, walker, diagnostics, idx, tables, results, pure >>

\* The "route" arm (main.rs 165-196).
Route ==
  /\ OnCall(MRoute)
  /\ Len(work[1].e.args) >= 2
  /\ LET path    == parse_string_arg(work[1].e.args[1])
         method  == parse_method(work[1].e.args[2])
         handler == parse_handler_name(work[1].e.args[2])
     IN  routes' =
           IF path.some /\ method.some /\ handler.some
           THEN Append(routes,
                  [path    |-> FullPath(CurrentBasePath, path.v),
                   method  |-> method.v,
                   handler |-> handler.v,
                   module  |-> IF Len(current_module) = 0 THEN None
                               ELSE Some(current_module)])
           ELSE routes
  /\ work' = Tail(work)
  /\ UNCHANGED << world, pc, err, state_stack, current_module, diagnostics, idx, tables,
                  results, pure >>

\* The pop that ends the nest or merge arm of `call`: the rest of the
\* frame of visit_expr_method_call for that call.
PopTask(call) == [t |-> "pop", call |-> call]

ModuleTask(module_name) ==
  [t |-> "module", name |-> module_name,
   path |-> calculate_module_path(current_module, module_name)]

\* The "nest" arm (main.rs 197-228): the new state is pushed, the module's
\* router is visited, the state is popped.
Nest ==
  /\ OnCall(MNest)
  /\ Len(work[1].e.args) >= 2
  /\ LET path_prefix == parse_string_arg(work[1].e.args[1])
         module_name == parse_nest_handler(work[1].e.args[2])
     IN  IF path_prefix.some /\ module_name.some
         THEN /\ state_stack' =
                   Append(state_stack,
                          [bp |-> NewBasePath(CurrentBasePath, path_prefix.v),
                           m  |-> Some(module_name.v)])
              /\ work' = << ModuleTask(module_name.v), PopTask(work[1].e) >> \o Tail(work)
         ELSE /\ state_stack' = state_stack
              /\ work' = Tail(work)
  /\ UNCHANGED << world, pc, err, routes, current_module, diagnostics, idx, tables,
                  results, pure >>

\* The "merge" arm (main.rs 229-257): a module reference is visited under
\* the current state pushed again; any other argument is visited in place.
Merge ==
  /\ OnCall(MMerge)
  /\ Len(work[1].e.args) >= 1
  /\ LET module_name == parse_merge_handler(work[1].e.args[1])
     IN  IF module_name.some
         THEN /\ state_stack' =
                   Append(state_stack,
                          IF Len(state_stack) > 0 THEN state_stack[Len(state_stack)]
                          ELSE [bp |-> << >>, m |-> None])
              /\ work' = << ModuleTask(module_name.v), PopTask(work[1].e) >> \o Tail(work)
         ELSE /\ state_stack' = state_stack
              /\ work' = << ExprTask(work[1].e.args[1]) >> \o Tail(work)
  /\ UNCHANGED << world, pc, err, routes, current_module, diagnostics, idx, tables,
                  results, pure >>

\* OtherMethod that leaves the arguments unvisited.
OtherMethodSkipsArgs ==
  /\ Walking
  /\ work[1].t = "call"
  /\ work[1].e.m \notin { MRoute, MNest, MMerge }
  /\ work' = Tail(work)
  /\ UNCHANGED << world, pc, err, routes, state_stack, current_module, diagnostics, idx,
                  tables, results, pure >>

\* Any other method (main.rs 258-263): its arguments are visited.
OtherMethod ==
  /\ Walking
  /\ work[1].t = "call"
  /\ work[1].e.m \notin { MRoute, MNest, MMerge }
  /\ work' = ExprTasks(work[1].e.args) \o Tail(work)
  /\ UNCHANGED << world, pc, err, routes, state_stack, current_module, diagnostics, idx,
                  tables, results, pure >>

\* ModuleMissing that ends the run with an error.
ModuleMissingFatal ==
  /\ Walking
  /\ work[1].t = "module"
  /\ FirstExisting(world.files, ModuleFilePaths(work[1].path)) = 0
  /\ Fail("module file not found")
  /\ UNCHANGED << world, walker, diagnostics, idx, tables, results, pure >>

\* visit_module_router when no candidate file exists (main.rs 120-122,
\* 148-154).
ModuleMissing ==
  /\ Walking
  /\ work[1].t = "module"
  /\ FirstExisting(world.files, ModuleFilePaths(work[1].path)) = 0
  /\ diagnostics' = Append(diagnostics, Warn("module file not found", work[1].name))
  /\ work' = Tail(work)
  /\ UNCHANGED << world, pc, err, routes, state_stack, current_module, idx, tables,
                  results, pure >>

\* visit_module_router on the first candidate that exists (main.rs
\* 121-141): current_module becomes the module of that file, and the last
\* expression of each router function of the file is visited.
ModuleEnter ==
  /\ Walking
  /\ work[1].t = "module"
  /\ FirstExisting(world.files, ModuleFilePaths(work[1].path)) # 0
  /\ LET file_path == FirstExistingPath(world.files, ModuleFilePaths(work[1].path)).v
         file  == world.files[file_path]
         exprs == IF file.st = "ok" THEN RouterExprs(file.items) ELSE << >>
     IN  /\ current_module' = extract_module_from_path(file_path)
         /\ work' = ExprTasks(exprs)
                    \o << [t |-> "restore", old |-> current_module, file |-> file_path,
                           found |-> Len(exprs) > 0, name |-> work[1].name] >>
                    \o Tail(work)
  /\ UNCHANGED << world, pc, err, routes, state_stack, diagnostics, idx, tables,
                  results, pure >>

\* ModuleLeave that keeps the module of the file it leaves.
ModuleLeaveKeepsModule ==
  /\ Walking
  /\ work[1].t = "restore"
  /\ current_module' = current_module
  /\ diagnostics' = IF work[1].found THEN diagnostics
                    ELSE Append(diagnostics, Warn("module file not found", work[1].name))
  /\ work' = Tail(work)
  /\ UNCHANGED << world, pc, err, routes, state_stack, idx, tables, results, pure >>

\* visit_module_router after the file (main.rs 142-154).
ModuleLeave ==
  /\ Walking
  /\ work[1].t = "restore"
  /\ current_module' = work[1].old
  /\ diagnostics' = IF work[1].found THEN diagnostics
                    ELSE Append(diagnostics, Warn("module file not found", work[1].name))
  /\ work' = Tail(work)
  /\ UNCHANGED << world, pc, err, routes, state_stack, idx, tables, results, pure >>

\* self.state_stack.pop() (main.rs 226, 251)
PopState ==
  /\ Walking
  /\ work[1].t = "pop"
  /\ state_stack' = Upto(state_stack, Len(state_stack) - 1)
  /\ work' = Tail(work)
  /\ UNCHANGED << world, pc, err, routes, current_module, diagnostics, idx, tables,
                  results, pure >>

\* visit_file returns (main.rs 1063-1067).
WalkDone ==
  /\ pc = "walk"
  /\ Len(work) = 0
  /\ pc' = "handlers"
  /\ idx' = 1
  /\ handlers' = EmptyMap
  /\ module_handlers' = EmptyMap
  /\ UNCHANGED << world, err, walker, diagnostics, all_models, results, pure >>

(***************************************************************************)
(* main, step 2: the handler of every route (main.rs 1065-1115)            *)
(***************************************************************************)

InHandlers == pc = "handlers" /\ idx <= Len(routes)

\* The handler is a function of the primary handler file.
HandlerFromPrimary ==
  /\ InHandlers
  /\ parse_handler(HandlerFile, routes[idx].handler).some
  /\ handlers' = MapInsert(handlers, routes[idx].handler,
                           parse_handler(HandlerFile, routes[idx].handler).v)
  /\ idx' = idx + 1
  /\ UNCHANGED << world, pc, err, walker, diagnostics, module_handlers, all_models,
                  results, pure >>

\* The module's handler file is not cached yet, its first existing
\* candidate cannot be read, and the ? returns the error from main.
HandlerFileReadFails ==
  /\ InHandlers
  /\ ~parse_handler(HandlerFile, routes[idx].handler).some
  /\ routes[idx].module.some
  /\ routes[idx].module.v \notin DOMAIN module_handlers
  /\ LET first == FirstExistingPath(world.files, HandlerFilePaths(routes[idx].module.v))
     IN  /\ first.some
         /\ world.files[first.v].st = "unreadable"
  /\ Fail("module handler file cannot be read")
  /\ UNCHANGED << world, walker, diagnostics, idx, tables, results, pure >>

\* The module's handler file is cached already (main.rs 1073, 1095-1103).
HandlerFromCache ==
  /\ InHandlers
  /\ ~parse_handler(HandlerFile, routes[idx].handler).some
  /\ routes[idx].module.some
  /\ routes[idx].module.v \in DOMAIN module_handlers
  /\ LET found == parse_handler(module_handlers[routes[idx].module.v], routes[idx].handler)
     IN  /\ handlers' = IF found.some
                        THEN MapInsert(handlers, routes[idx].handler, found.v)
                        ELSE handlers
         /\ diagnostics' =
              IF found.some THEN diagnostics
              ELSE Append(diagnostics, Warn("handler not found in module", routes[idx].handler))
  /\ idx' = idx + 1
  /\ UNCHANGED << world, pc, err, walker, module_handlers, all_models, results, pure >>

\* The module is not cached and one of its candidate handler files exists:
\* the first such file is read, cached, and searched (main.rs 1073-1103).
HandlerFromModule ==
  /\ InHandlers
  /\ ~parse_handler(HandlerFile, routes[idx].handler).some
  /\ routes[idx].module.some
  /\ routes[idx].module.v \notin DOMAIN module_handlers
  /\ FirstExistingPath(world.files, HandlerFilePaths(routes[idx].module.v)).some
  /\ LET module_name == routes[idx].module.v
         file  == world.files[FirstExistingPath(world.files, HandlerFilePaths(module_name)).v]
         found == parse_handler(file, routes[idx].handler)
     IN  /\ file.st # "unreadable"
         /\ module_handlers' = MapInsert(module_handlers, module_name, file)
         /\ handlers' = IF found.some
                        THEN MapInsert(handlers, routes[idx].handler, found.v)
                        ELSE handlers
         /\ diagnostics' =
              IF found.some THEN diagnostics
              ELSE Append(diagnostics, Warn("handler not found in module", routes[idx].handler))
  /\ idx' = idx + 1
  /\ UNCHANGED << world, pc, err, walker, all_models, results, pure >>

\* The module is not cached and none of its candidate handler files exists
\* (main.rs 1081-1093).
HandlerFileMissing ==
  /\ InHandlers
  /\ ~parse_handler(HandlerFile, routes[idx].handler).some
  /\ routes[idx].module.some
  /\ routes[idx].module.v \notin DOMAIN module_handlers
  /\ ~FirstExistingPath(world.files, HandlerFilePaths(routes[idx].module.v)).some
  /\ diagnostics' = Append(diagnostics,
                           Warn("module handler file not found", routes[idx].module.v))
  /\ idx' = idx + 1
  /\ UNCHANGED << world, pc, err, walker, tables, results, pure >>

\* HandlerUnresolved that stores an empty HandlerInfo for the name.
HandlerUnresolvedStored ==
  /\ InHandlers
  /\ ~parse_handler(HandlerFile, routes[idx].handler).some
  /\ ~routes[idx].module.some
  /\ handlers' = MapInsert(handlers, routes[idx].handler,
                           [params |-> << >>, return_type |-> None, summary |-> None,
                            description |-> None])
  /\ diagnostics' = Append(diagnostics, Warn("handler not found", routes[idx].handler))
  /\ idx' = idx + 1
  /\ UNCHANGED << world, pc, err, walker, module_handlers, all_models, results, pure >>

\* Neither in the primary file nor in a module (main.rs 1112-1114).
HandlerUnresolved ==
  /\ InHandlers
  /\ ~parse_handler(HandlerFile, routes[idx].handler).some
  /\ ~routes[idx].module.some
  /\ diagnostics' = Append(diagnostics, Warn("handler not found", routes[idx].handler))
  /\ idx' = idx + 1
  /\ UNCHANGED << world, pc, err, walker, tables, results, pure >>

HandlersDone ==
  /\ pc = "handlers"
  /\ idx > Len(routes)
  /\ pc' = "models"
  /\ idx' = 1
  /\ all_models' = EmptyMap
  /\ UNCHANGED << world, err, walker, diagnostics, handlers, module_handlers, results,
                  pure >>

(***************************************************************************)
(* main, step 3: the model files (main.rs 1117-1128)                       *)
(***************************************************************************)

InModels == pc = "models" /\ idx <= Len(world.model_files)

\* ModelFileMissing that ends the run with an error.
ModelFileMissingFatal ==
  /\ InModels
  /\ world.model_files[idx] \notin DOMAIN world.files
  /\ Fail("model file not found")
  /\ UNCHANGED << world, walker, diagnostics, idx, tables, results, pure >>

\* main.rs 1118-1127: the file does not exist.
ModelFileMissing ==
  /\ InModels
  /\ world.model_files[idx] \notin DOMAIN world.files
  /\ diagnostics' = Append(diagnostics, Warn("model file not found", world.model_files[idx]))
  /\ idx' = idx + 1
  /\ UNCHANGED << world, pc, err, walker, tables, results, pure >>

\* main.rs 1121: fs::read_to_string(path)?
ModelFileReadFails ==
  /\ InModels
  /\ world.model_files[idx] \in DOMAIN world.files
  /\ world.files[world.model_files[idx]].st = "unreadable"
  /\ Fail("model file cannot be read")
  /\ UNCHANGED << world, walker, diagnostics, idx, tables, results, pure >>

\* main.rs 1121-1124, with parse_models' warning for a file that does not
\* parse (main.rs 515-521).
ModelFileParsed ==
  /\ InModels
  /\ world.model_files[idx] \in DOMAIN world.files
  /\ world.files[world.model_files[idx]].st # "unreadable"
  /\ all_models' = MapExtend(all_models, parse_models(world.files[world.model_files[idx]]))
  /\ diagnostics' =
       IF world.files[world.model_files[idx]].st = "unparseable"
       THEN Append(diagnostics, Warn("failed to parse model file", world.model_files[idx]))
       ELSE diagnostics
  /\ idx' = idx + 1
  /\ UNCHANGED << world, pc, err, walker, handlers, module_handlers, results, pure >>

ModelsDone ==
  /\ pc = "models"
  /\ idx > Len(world.model_files)
  /\ pc' = "generate"
  /\ UNCHANGED << world, err, walker, diagnostics, idx, tables, results, pure >>

(***************************************************************************)
(* main, step 4: the document and the output file (main.rs 1130-1146)      *)
(***************************************************************************)

\* The notices generate_openapi prints for the routes without a handler.
RECURSIVE MissingHandlerNotices(_, _)
MissingHandlerNotices(rs, hs) ==
  IF Len(rs) = 0 THEN << >>
  ELSE (IF rs[1].handler \in DOMAIN hs THEN << >>
        ELSE << Warn("route without handler", rs[1].path) >>)
       \o MissingHandlerNotices(Tail(rs), hs)

\* generate_openapi; the order in which generate_schemas meets the models
\* is the HashMap's, any one.
Generate ==
  /\ pc = "generate"
  /\ \E order \in Orders(DOMAIN all_models) :
       openapi' = Some(generate_openapi(routes, handlers, all_models, order))
  /\ diagnostics' = diagnostics \o MissingHandlerNotices(routes, handlers)
  /\ pc' = "write"
  /\ UNCHANGED << world, err, walker, idx, tables, output, pure >>

\* main.rs 1141: fs::write(&output_path, pretty_json)?
WriteOutput ==
  /\ pc = "write"
  /\ world.out_ok
  /\ output' = openapi
  /\ pc' = "done"
  /\ UNCHANGED << world, err, walker, diagnostics, idx, tables, openapi, pure >>

FailWrite ==
  /\ pc = "write"
  /\ ~world.out_ok
  /\ Fail("output file cannot be written")
  /\ UNCHANGED << world, walker, diagnostics, idx, tables, results, pure >>

(***************************************************************************)
(* Source trees.  The run starts from any of a family of trees built from  *)
(* a few choices: the calls of the primary router chain, which of a        *)
(* module's candidate files exist and in what condition, the condition of  *)
(* the handler file and of the model files, whether the output can be      *)
(* written.  The fixture trees of tests/fixtures are among them.           *)
(***************************************************************************)

\* The longest primary chain of the composed trees.
MaxChain == 2

sGet == << "g", "e", "t" >>

sPost == << "p", "o", "s", "t" >>

sRouter == << "R", "o", "u", "t", "e", "r" >>

sNew == << "n", "e", "w" >>

sApp == << "a", "p", "p" >>

sLayer == << "l", "a", "y", "e", "r" >>

sH1 == << "h", "1" >>

sH2 == << "h", "2" >>

sH3 == << "h", "3" >>

sH4 == << "h", "4" >>

sU == << "u" >>

sV == << "v" >>

sX == << "x" >>

sModules == << "m", "o", "d", "u", "l", "e", "s" >>

sUser == << "u", "s", "e", "r" >>

sHandler == << "h", "a", "n", "d", "l", "e", "r" >>

sLogin == << "l", "o", "g", "i", "n" >>

sRoot == << "r", "o", "o", "t" >>

sMain == << "m", "a", "i", "n" >>

sFormRs == << "f", "o", "r", "m", ".", "r", "s" >>

sResponseRs == << "r", "e", "s", "p", "o", "n", "s", "e", ".", "r", "s" >>

sTypesRs == << "t", "y", "p", "e", "s", ".", "r", "s" >>

sStatic == << "s", "t", "a", "t", "i", "c" >>

sI64 == << "i", "6", "4" >>

sI32 == << "i", "3", "2" >>

sStructA == << "A" >>

sStructB == << "B" >>

sStructC == << "C" >>

sStructD == << "D" >>

sFx == << "x" >>

sFy == << "y" >>

sFz == << "z" >>

sFa == << "a" >>

sFv == << "v" >>

pSlash == << "/" >>

pB == << "/", "b" >>

pRelB == << "b" >>

pC == << "/", "c" >>

pX == << "/", "x" >>

pE == << "/", "e" >>

pN == << "/", "n" >>

pI == << "/", "i" >>

pCm == << "/", "c", "m" >>

pCh == << "/", "c", "h" >>

pA == << "/", "a" >>

pRelA == << "a" >>

pLogin == << "/", "l", "o", "g", "i", "n" >>

pApiUser == << "/", "a", "p", "i", "/", "v", "1", "/", "u", "s", "e", "r" >>

pU == << "/", "u" >>

dSummary == << "S", "u", "m", "m", "a", "r", "y", " ", "l", "i", "n", "e" >>

dDetail == << " ", "D", "e", "t", "a", "i", "l", " ", "o", "n", "e", " " >>

pEmpty == << >>

RouterNew == CallE(PathE(<< sRouter, sNew >>), << >>)

\* The shapes of calls: [m, args].
CallShape(m, args) == [m |-> m, args |-> args]

RouteShape(lit, method, handler) ==
  CallShape(MRoute, << Lit(lit), CallE(PathE(<< method >>), << PathE(<< handler >>) >>) >>)

NestShape(lit, module) ==
  CallShape(MNest, << Lit(lit), CallE(PathE(<< module, RouterName >>), << >>) >>)

MergeShape(module) ==
  CallShape(MMerge, << CallE(PathE(<< module, RouterName >>), << >>) >>)

\* recv.c1(..).c2(..)...
RECURSIVE ChainOn(_, _)
ChainOn(recv, calls) ==
  IF Len(calls) = 0 THEN recv
  ELSE ChainOn(MethodCall(recv, calls[1].m, calls[1].args), Tail(calls))

Chain(calls) == ChainOn(RouterNew, calls)

RouterFn(calls) == FnItem(RouterName, << >>, << >>, None, << ExprStmt(Chain(calls)) >>)

StaticStr == TRef(sStatic, FALSE, TName(TStr))

\* The handlers of the composed trees.
FnH1 == FnItem(sH1, << DocLine(dSummary) >>, << >>, Some(StaticStr), << >>)

FnH2 ==
  FnItem(sH2, << >>, << TGen(KJson, << TName(sStructA) >>) >>,
         Some(TGen(KJson, << TName(sStructB) >>)), << >>)

FnH3 ==
  FnItem(sH3, << DocLine(dSummary), DocLine(<< >>), DocLine(dDetail) >>,
         << TGen(KPath, << TName(sStructC) >>), TGen(KQuery, << TName(sStructA) >>) >>,
         Some(TName(TString)), << >>)

FnH4 == FnItem(sH4, << >>, << >>, None, << >>)

\* The model files of the composed trees.
FormItems ==
  << StructItem(sStructA, "named",
                << [name |-> sFx, ty |-> TName(TString)],
                   [name |-> sFy, ty |-> TGen(TOption, << TName(sI64) >>)] >>),
     StructItem(sStructB, "named",
                << [name |-> sFa, ty |-> TName(sStructA)],
                   [name |-> sFv, ty |-> TGen(TVec, << TName(TString) >>)] >>) >>

TypesItems ==
  << StructItem(sStructB, "named", << [name |-> sFz, ty |-> TName(TBool)] >>),
     StructItem(sStructC, "tuple",
                << [name |-> << >>, ty |-> TName(sI32)],
                   [name |-> << >>, ty |-> TName(TUuid)] >>),
     StructItem(sStructD, "unit", << >>) >>

\* A file in condition st ("missing": no file).
FileIn(st, items) == [st |-> st, items |-> IF st = "ok" THEN items ELSE << >>]

\* The function with the given <<path, condition, items>> entries, the
\* missing files left out.
FilesOf(entries) ==
  LET present == { e \in entries : e[2] # "missing" }
  IN  [q \in { e[1] : e \in present } |->
         LET e == CHOOSE e \in present : e[1] = q IN FileIn(e[2], e[3])]

MainPath == << SrcDir, MainRs >>

FormPath == << SrcDir, sFormRs >>

ResponsePath == << SrcDir, sResponseRs >>

TypesPath == << SrcDir, sTypesRs >>

\* The router of module u in each of its three candidate files; each
\* registers a path of its own, the flat file and the mod file nest module
\* v, and the mod file first nests module x, of which no file exists.
URouter(kind) ==
  IF kind = "handlers"
  THEN RouterFn(<< RouteShape(pCh, sPost, sH2), RouteShape(pEmpty, sGet, sH1) >>)
  ELSE IF kind = "mod"
       THEN RouterFn(<< NestShape(pX, sX), RouteShape(pCm, sPost, sH2),
                        NestShape(pN, sV) >>)
  ELSE RouterFn(<< RouteShape(pC, sPost, sH2), RouteShape(pRelB, sGet, sH1),
                   NestShape(pN, sV) >>)

UPath(kind) ==
  IF kind = "handlers" THEN << SrcDir, sU, HandlersRs >>
  ELSE IF kind = "mod" THEN << SrcDir, sU, ModRs >>
  ELSE << SrcDir, sU \o DotRs >>

UKinds == { "handlers", "mod", "flat" }

\* A composed tree.  cfg: base, hf (condition of the handler file), calls
\* (of the primary chain), u (condition of each candidate file of module
\* u), uh (condition of src/u_handler.rs), m1, m2 (conditions of the two
\* model files), out (the output can be written).
ComposedWorld(cfg) ==
  [base_exists  |-> cfg.base,
   handler_file |-> MainPath,
   model_files  |-> << FormPath, TypesPath >>,
   out_ok       |-> cfg.out,
   files |-> FilesOf(
     { << MainPath, cfg.hf,
          << FnH1, FnH4, FnItem(sApp, << >>, << >>, None, << ExprStmt(Chain(cfg.calls)) >>) >> >>,
       << FormPath, cfg.m1, FormItems >>,
       << TypesPath, cfg.m2, TypesItems >>,
       << << SrcDir, sU \o UnderHandlerRs >>, cfg.uh, << FnH2 >> >>,
       << << SrcDir, sU, sV \o DotRs >>, "ok",
          << RouterFn(<< RouteShape(pE, sGet, sH3) >>), FnH3 >> >> }
     \cup { << UPath(kd), cfg.u[kd], << URouter(kd), FnH2 >> >> : kd \in UKinds })]

DefaultCfg ==
  [base |-> TRUE, hf |-> "ok", calls |-> << RouteShape(pB, sGet, sH1), NestShape(pA, sU) >>,
   u |-> [kd \in UKinds |-> IF kd = "flat" THEN "ok" ELSE "missing"],
   uh |-> "missing", m1 |-> "ok", m2 |-> "ok", out |-> TRUE]

Conditions == { "ok", "missing", "unreadable", "unparseable" }

\* The calls a composed primary chain is made of.
CompMenu ==
  { RouteShape(pB, sGet, sH1), RouteShape(pRelB, sGet, sH1), RouteShape(pB, sGet, sH3),
    NestShape(pA, sU), NestShape(pRelA, sU), NestShape(pEmpty, sU), MergeShape(sU),
    NestShape(pX, sX), MergeShape(sX) }

\* The sequences over S of length at most n.
SeqsUpTo(S, n) == UNION { [1..k -> S] : k \in 0..n }

\* Trees that differ in the primary chain.
ChainCfgs == { [DefaultCfg EXCEPT !.calls = cs] : cs \in SeqsUpTo(CompMenu, MaxChain) }

\* Trees that differ in what fails: the base directory, the handler file,
\* the output file.
StartCfgs ==
  { [DefaultCfg EXCEPT !.base = b, !.hf = h, !.out = o] :
      b \in BOOLEAN, h \in Conditions, o \in BOOLEAN }

\* Trees that differ in the model files and the module handler file.
ModelCfgs ==
  { [DefaultCfg EXCEPT !.m1 = a, !.m2 = b, !.uh = h, !.out = o,
                       !.u = [kd \in UKinds |-> IF kd = "mod" THEN "ok" ELSE "missing"]] :
      a \in Conditions, b \in Conditions, h \in Conditions, o \in BOOLEAN }

\* Trees that differ in the candidate files of module u.
ModuleCfgs ==
  { [DefaultCfg EXCEPT !.u = u, !.uh = h] :
      u \in [UKinds -> Conditions], h \in { "missing", "ok" } }

\* A tree whose primary chain registers one path three times.
RepeatCfgs ==
  { [DefaultCfg EXCEPT !.calls = << RouteShape(pB, sGet, sH1), RouteShape(pB, sPost, sH4),
                                    RouteShape(pB, m, sH4) >>] : m \in { sGet, sPost } }

\* A tree whose primary chain nests module u between two register calls.
OrderCfgs ==
  { [DefaultCfg EXCEPT !.calls = << RouteShape(pB, sGet, sH1), c, RouteShape(pC, sPost, sH4) >>] :
      c \in { NestShape(pA, sU), MergeShape(sU) } }

ComposedWorlds ==
  { ComposedWorld(cfg) :
      cfg \in ChainCfgs \cup StartCfgs \cup ModelCfgs \cup ModuleCfgs \cup RepeatCfgs
               \cup OrderCfgs }

\* Calls of other shapes: too few arguments, arguments that are not a
\* literal or not a module reference, routers built in place.
InlineRouter == Chain(<< RouteShape(pI, sGet, sH1) >>)

OddMenu ==
  { CallShape(MRoute, << Lit(pB) >>),
    CallShape(MNest, << Lit(pA) >>),
    CallShape(MMerge, << >>),
    CallShape(sLayer, << CallE(PathE(<< sApp >>), << InlineRouter >>) >>),
    CallShape(MMerge, << InlineRouter >>),
    CallShape(MNest, << Lit(pA), InlineRouter >>),
    CallShape(MRoute, << OtherE, CallE(PathE(<< sGet >>), << PathE(<< sH1 >>) >>) >>),
    CallShape(MRoute, << Lit(pB), PathE(<< sH1 >>) >>),
    CallShape(MNest, << OtherE, CallE(PathE(<< sU, RouterName >>), << >>) >>),
    CallShape(MNest, << Lit(pA), PathE(<< sU, RouterName >>) >>) }

OddCfgs ==
  { [DefaultCfg EXCEPT !.calls = << o, RouteShape(pB, sGet, sH1) >>] : o \in OddMenu }
  \cup { [DefaultCfg EXCEPT !.calls = << RouteShape(pB, sGet, sH1), o >>] : o \in OddMenu }

OddWorlds == { ComposedWorld(cfg) : cfg \in OddCfgs }

\* tests/fixtures/dup_path_app, with the prefix both modules nest under.
FnLogin == FnItem(sLogin, << >>, << >>, Some(StaticStr), << >>)

FnRoot == FnItem(sRoot, << >>, << >>, Some(StaticStr), << >>)

DupPathWorld(prefix) ==
  [base_exists  |-> TRUE,
   handler_file |-> MainPath,
   model_files  |-> << FormPath, ResponsePath, TypesPath >>,
   out_ok       |-> TRUE,
   files |-> FilesOf(
     { << MainPath, "ok",
          << FnItem(sMain, << >>, << >>, None,
                    << LocalStmt(CallE(PathE(<< RouterName >>), << >>)) >>),
             RouterFn(<< RouteShape(pSlash, sGet, sRoot), MergeShape(sModules) >>),
             FnRoot >> >>,
       << << SrcDir, sModules, ModRs >>, "ok",
          << RouterFn(<< NestShape(prefix, sUser) >>) >> >>,
       << << SrcDir, sModules, sUser, ModRs >>, "ok",
          << RouterFn(<< NestShape(prefix, sHandler) >>) >> >>,
       << << SrcDir, sModules, sUser, sHandler \o DotRs >>, "ok",
          << RouterFn(<< RouteShape(pLogin, sGet, sLogin) >>), FnLogin >> >> })]

DupPrefixes == { pApiUser, pU }

sHealth == << "h", "e", "a", "l", "t", "h" >>

pHealth == << "/" >> \o sHealth

\* A tree with the one call route("/health", get(health)), the handler
\* without parameters returning &'static str, and no model file configured.
HealthWorld ==
  [base_exists  |-> TRUE,
   handler_file |-> MainPath,
   model_files  |-> << >>,
   out_ok       |-> TRUE,
   files |-> FilesOf(
     { << MainPath, "ok",
          << RouterFn(<< RouteShape(pHealth, sGet, sHealth) >>),
             FnItem(sHealth, << >>, << >>, Some(StaticStr), << >>) >> >> })]

\* The default tree with its model files listed in another order, or one
\* of them listed twice.
ModelOrders ==
  { << TypesPath, FormPath >>, << FormPath, TypesPath, FormPath >>,
    << TypesPath, ResponsePath, TypesPath >> }

ModelOrderWorlds ==
  { [ComposedWorld(DefaultCfg) EXCEPT !.model_files = fs] : fs \in ModelOrders }

\* Module v's own function h2, unlike the h2 of module u.
FnH2OfV == FnItem(sH2, << DocLine(dSummary) >>, << >>, Some(TName(TString)), << >>)

\* A tree that nests the modules u and v, in the order given by `calls`;
\* each registers one route to a function h2 of its own file.
CollisionWorld(calls) ==
  [base_exists  |-> TRUE,
   handler_file |-> MainPath,
   model_files  |-> << FormPath, TypesPath >>,
   out_ok       |-> TRUE,
   files |-> FilesOf(
     { << MainPath, "ok", << RouterFn(calls) >> >>,
       << FormPath, "ok", FormItems >>,
       << TypesPath, "ok", TypesItems >>,
       << << SrcDir, sU \o DotRs >>, "ok",
          << RouterFn(<< RouteShape(pC, sPost, sH2) >>), FnH2 >> >>,
       << << SrcDir, sV \o DotRs >>, "ok",
          << RouterFn(<< RouteShape(pE, sGet, sH2) >>), FnH2OfV >> >> })]

CollisionWorlds ==
  { CollisionWorld(<< NestShape(pA, sU), NestShape(pN, sV) >>),
    CollisionWorld(<< NestShape(pN, sV), NestShape(pA, sU) >>),
    CollisionWorld(<< NestShape(pA, sU), NestShape(pN, sV), MergeShape(sU) >>) }

\* The calls that hold a router built in place where the walk descends:
\* in an argument of a method that is no routing primitive, and as the
\* argument of merge.
BuriedShapes ==
  { CallShape(sLayer, << CallE(PathE(<< sApp >>), << InlineRouter >>) >>),
    CallShape(sLayer, << OtherE, InlineRouter >>),
    CallShape(MMerge, << InlineRouter >>) }

\* A tree that nests module u under /a between two register calls; the
\* router of u holds the call `buried` between two register calls.
BuriedWorld(buried) ==
  [base_exists  |-> TRUE,
   handler_file |-> MainPath,
   model_files  |-> << FormPath, TypesPath >>,
   out_ok       |-> TRUE,
   files |-> FilesOf(
     { << MainPath, "ok",
          << FnH1, FnH4,
             RouterFn(<< RouteShape(pB, sGet, sH1), NestShape(pA, sU),
                         RouteShape(pC, sPost, sH4) >>) >> >>,
       << FormPath, "ok", FormItems >>,
       << TypesPath, "ok", TypesItems >>,
       << << SrcDir, sU \o DotRs >>, "ok",
          << RouterFn(<< RouteShape(pE, sGet, sH1), buried,
                         RouteShape(pCm, sGet, sH1) >>) >> >> })]

BuriedWorlds == { BuriedWorld(c) : c \in BuriedShapes }

\* A tree that nests or merges module u between two register calls, the
\* file of u holding a function and no router.
NoRouterWorld(call) ==
  [base_exists  |-> TRUE,
   handler_file |-> MainPath,
   model_files  |-> << FormPath, TypesPath >>,
   out_ok       |-> TRUE,
   files |-> FilesOf(
     { << MainPath, "ok",
          << FnH1, FnH4,
             RouterFn(<< RouteShape(pB, sGet, sH1), call, RouteShape(pC, sPost, sH4) >>) >> >>,
       << FormPath, "ok", FormItems >>,
       << TypesPath, "ok", TypesItems >>,
       << << SrcDir, sU \o DotRs >>, "ok", << FnH2 >> >> })]

NoRouterWorlds == { NoRouterWorld(c) : c \in { NestShape(pA, sU), MergeShape(sU) } }

\* A tree whose module u has two candidate handler files: src/u_handler.rs,
\* in condition st, declares h2 and src/u.rs, the router file, declares h2
\* and h3.
SplitWorld(st) ==
  [base_exists  |-> TRUE,
   handler_file |-> MainPath,
   model_files  |-> << FormPath, TypesPath >>,
   out_ok       |-> TRUE,
   files |-> FilesOf(
     { << MainPath, "ok",
          << FnH1, RouterFn(<< RouteShape(pB, sGet, sH1), NestShape(pA, sU) >>) >> >>,
       << FormPath, "ok", FormItems >>,
       << TypesPath, "ok", TypesItems >>,
       << << SrcDir, sU \o UnderHandlerRs >>, st, << FnH2 >> >>,
       << << SrcDir, sU \o DotRs >>, "ok",
          << RouterFn(<< RouteShape(pC, sPost, sH2), RouteShape(pE, sGet, sH3) >>),
             FnH2, FnH3 >> >> })]

SplitWorlds == { SplitWorld(st) : st \in { "ok", "unparseable" } }

FixtureWorlds ==
  { DupPathWorld(q) : q \in DupPrefixes } \cup { HealthWorld } \cup ModelOrderWorlds
    \cup CollisionWorlds \cup BuriedWorlds \cup NoRouterWorlds \cup SplitWorlds

Worlds == ComposedWorlds \cup OddWorlds \cup FixtureWorlds

Init ==
  /\ world \in Worlds
  /\ pc = "start"
  /\ err = ""
  /\ routes = << >>
  /\ state_stack = << >>
  /\ current_module = << >>
  /\ work = << >>
  /\ diagnostics = << >>
  /\ idx = 1
  /\ handlers = EmptyMap
  /\ module_handlers = EmptyMap
  /\ all_models = EmptyMap
  /\ openapi = None
  /\ output = None
  /\ fin = None
  /\ fout = None

Next ==
  \/ FailBaseDir
  \/ FailHandlerMissing
  \/ FailHandlerRead
  \/ FailHandlerParse
  \/ StartWalk
  \/ VisitMethodCall
  \/ VisitOtherExpr
  \/ RoutePanic
  \/ NestPanic
  \/ MergePanic
  \/ Route
  \/ Nest
  \/ Merge
  \/ OtherMethod
  \/ ModuleMissing
  \/ ModuleEnter
  \/ ModuleLeave
  \/ PopState
  \/ WalkDone
  \/ HandlerFromPrimary
  \/ HandlerFileReadFails
  \/ HandlerFromCache
  \/ HandlerFromModule
  \/ HandlerFileMissing
  \/ HandlerUnresolved
  \/ HandlersDone
  \/ ModelFileMissing
  \/ ModelFileReadFails
  \/ ModelFileParsed
  \/ ModelsDone
  \/ Generate
  \/ WriteOutput
  \/ FailWrite

Spec == Init /\ [][Next]_vars

(***************************************************************************)
(* The pure functions on their own.  A run of SpecTypes is one call of     *)
(* rust_type_to_openapi, a run of SpecParams one call of                   *)
(* extract_path_params: fin is the argument, fout the value returned.      *)
(***************************************************************************)

\* Everything of the run at rest, while a pure function is looked at.
AtRest ==
  /\ world = ComposedWorld(DefaultCfg)
  /\ pc = "call"
  /\ err = ""
  /\ routes = << >>
  /\ state_stack = << >>
  /\ current_module = << >>
  /\ work = << >>
  /\ diagnostics = << >>
  /\ idx = 1
  /\ handlers = EmptyMap
  /\ module_handlers = EmptyMap
  /\ all_models = EmptyMap
  /\ openapi = None
  /\ output = None

run == << world, pc, err, walker, diagnostics, idx, tables, results >>

\* The deepest nesting of generic wrappers in the type texts tried.
MaxWrap == 1

sUsize == << "u", "s", "i", "z", "e" >>

sU8 == << "u", "8" >>

sBogus == << "B", "o", "g", "u", "s" >>

sUuidBox == << "U", "u", "i", "d", "B", "o", "x" >>

\* The identifiers tried: the names of the mapping table, names the table
\* leaves out, and names of structures.
TypeNames ==
  { TString, sI32, sI64, sUsize, TF64, TBool, TUuid, TF32, sU8, TDateTime, TDuration,
    sBogus, sStructA, sUuidBox }

Wrappers == { "Vec", "Option", "HashMap" }

Wrap(w, t) ==
  IF w = "Vec" THEN TVec \o << "<" >> \o t \o << ">" >>
  ELSE IF w = "Option" THEN TOption \o << "<" >> \o t \o << ">" >>
  ELSE THashMap \o << "<" >> \o TString \o << "," >> \o t \o << ">" >>

\* The type texts with at most n wrappers around a name.
RECURSIVE TypeTexts(_)
TypeTexts(n) ==
  IF n = 0 THEN TypeNames
  ELSE TypeNames \cup { Wrap(w, t) : w \in Wrappers, t \in TypeTexts(n - 1) }

\* The structure mappings tried: the names that are declared.
Declared(names) == [n \in names |-> [name |-> n, fields |-> << >>]]

ModelSets == { Declared({}), Declared({ sStructA }), Declared({ sStructA, sUuidBox, TDuration }) }

InitTypes ==
  /\ AtRest
  /\ fin \in { Some([ty |-> t, models |-> m]) : t \in TypeTexts(MaxWrap), m \in ModelSets }
  /\ fout = None

MapType ==
  /\ pc = "call"
  /\ fin.some
  /\ ~fout.some
  /\ fout' = Some(rust_type_to_openapi(fin.v.ty, fin.v.models))
  /\ UNCHANGED << run, fin >>

NextTypes == MapType

SpecTypes == InitTypes /\ [][NextTypes]_vars

\* The longest route path tried.
MaxPath == 4

PathAlphabet == { "/", ":", "{", "}", "a", "b" }

pUsersPosts ==
  << "/", "u", "s", "e", "r", "s", "/", ":", "i", "d", "/", "p", "o", "s", "t", "s", "/",
     "{", "p", "o", "s", "t", "_", "i", "d", "}" >>

pIdId == << "/", ":", "i", "d", "/", "{", "i", "d", "}" >>

pUsers == << "/", "u", "s", "e", "r", "s" >>

RoutePaths == SeqsUpTo(PathAlphabet, MaxPath) \cup { pUsersPosts, pIdId, pUsers }

InitParams ==
  /\ AtRest
  /\ fin \in { Some(q) : q \in RoutePaths }
  /\ fout = None

ExtractParams ==
  /\ pc = "call"
  /\ fin.some
  /\ ~fout.some
  /\ fout' = Some(extract_path_params(fin.v))
  /\ UNCHANGED << run, fin >>

NextParams == ExtractParams

SpecParams == InitParams /\ [][NextParams]_vars

(***************************************************************************)
(* Properties of the type mapping (SpecTypes)                              *)
(***************************************************************************)

\* A text made of word characters only.
IsIdentifier(t) == Len(t) > 0 /\ \A i \in 1..Len(t) : WordChar(t[i])

StringSchema == [type |-> "string"]

Int32Schema == [type |-> "integer", format |-> "int32"]

Int64Schema == [type |-> "integer", format |-> "int64"]

DoubleSchema == [type |-> "number", format |-> "double"]

UuidSchema ==
  [type |-> "string", format |-> "uuid", example |-> "550e8400-e29b-41d4-a716-446655440000"]

ObjectSchema == [type |-> "object"]

RefTo(name) == ("$ref" :> (RefPrefix \o name))

\* The type texts the table lists, each with its schema.
ListedRows ==
  { << TString, StringSchema >>,
    << sI32, Int32Schema >>,
    << sI64, Int64Schema >>,
    << sUsize, Int64Schema >>,
    << TF64, DoubleSchema >>,
    << TBool, [type |-> "boolean"] >>,
    << Wrap("Vec", TString), [type |-> "array", items |-> StringSchema] >>,
    << Wrap("Option", sI64), [type |-> "integer", format |-> "int64", nullable |-> TRUE] >>,
    << Wrap("HashMap", sI32), [type |-> "object", additionalProperties |-> Int32Schema] >>,
    << TUuid, UuidSchema >> }

ListedTexts == { row[1] : row \in ListedRows }

\* A primitive name, or a name with one of the fragments of the well-known
\* foreign types.
PrimitiveOrForeign(t) ==
  \/ t \in { TString, TStr, TF32, TF64, TBool } \cup Int32Names \cup Int64Names
  \/ \E frag \in { TUuid, TDateTime, TChrono, TDuration, TDurationLc } : Contains(t, frag)

\* C9 as stated: every listed text maps to its listed schema, a name equal
\* to a declared structure maps to the $ref to it, and any other identifier
\* maps to {type: object}.
C9_TableRefElseObject ==
  fout.some =>
    /\ \A row \in ListedRows : fin.v.ty = row[1] /\ row[1] \notin DOMAIN fin.v.models
                                 => fout.v = row[2]
    /\ fin.v.ty \in DOMAIN fin.v.models => fout.v = RefTo(fin.v.ty)
    /\ IsIdentifier(fin.v.ty) /\ fin.v.ty \notin DOMAIN fin.v.models
         /\ fin.v.ty \notin ListedTexts
       => fout.v = ObjectSchema

\* C9 amended: every listed text maps to its listed schema; a name equal to
\* a declared structure maps to the $ref to it unless it is a primitive name
\* or has a fragment of a foreign type; any other identifier that is neither
\* maps to {type: object}.
C9_TableThenRefThenObject ==
  fout.some =>
    /\ \A row \in ListedRows : fin.v.ty = row[1] => fout.v = row[2]
    /\ fin.v.ty \in DOMAIN fin.v.models /\ ~PrimitiveOrForeign(fin.v.ty)
       => fout.v = RefTo(fin.v.ty)
    /\ IsIdentifier(fin.v.ty) /\ fin.v.ty \notin DOMAIN fin.v.models
         /\ ~PrimitiveOrForeign(fin.v.ty)
       => fout.v = ObjectSchema

\* A declared structure was mapped to its $ref, with other structures
\* declared beside it.
C9_Witness ==
  /\ fout.some
  /\ fin.v.ty = sStructA
  /\ DOMAIN fin.v.models = { sStructA, sUuidBox, TDuration }
  /\ fout.v = RefTo(sStructA)

(***************************************************************************)
(* Properties of the path parameters (SpecParams)                          *)
(***************************************************************************)

sId == << "i", "d" >>

sPostId == << "p", "o", "s", "t", "_", "i", "d" >>

\* C10: one parameter per distinct name (no name twice), each with
\* in = path, required = true and schema {type: string}; nothing for a path
\* without ':' and '{'; "/users/:id/posts/{post_id}" yields id and post_id.
C10_OneParamPerName ==
  fout.some =>
    /\ \A i, j \in 1..Len(fout.v) : fout.v[i].name = fout.v[j].name => i = j
    /\ \A i \in 1..Len(fout.v) : fout.v[i] = PathParam(fout.v[i].name)
    /\ ~Contains(fin.v, << ":" >>) /\ ~Contains(fin.v, << "{" >>) => fout.v = << >>
    /\ fin.v = pUsersPosts => fout.v = << PathParam(sId), PathParam(sPostId) >>

(***************************************************************************)
(* Properties of the run (Spec)                                            *)
(***************************************************************************)

\* The paths of the routes found so far.
RoutePathsFound == { routes[i].path : i \in 1..Len(routes) }

Rooted(t) == StartsWith(t, << "/" >>)

\* C1: in the tree of dup_path_app, where modules nests "/api/v1/user"
\* around user and user nests "/api/v1/user" around handler, the paths of
\* the document hold /api/v1/user/login and not
\* /api/v1/user/api/v1/user/login.
C1_DuplicatePrefixCollapses ==
  (pc = "done" /\ world = DupPathWorld(pApiUser)) =>
    /\ JHas(output.v.paths, pApiUser \o pLogin)
    /\ ~JHas(output.v.paths, pApiUser \o pApiUser \o pLogin)

\* C2: a route call with literal L under the prefix P on top of the stack
\* adds the Route with path L when P is empty, P+L when L starts with "/",
\* P+"/"+L otherwise; under "/a", "b" gives "/a/b" and "/c" gives "/a/c".
C2_PathComposition ==
  [][ ( /\ OnCall(MRoute)
        /\ Len(work[1].e.args) >= 2
        /\ parse_string_arg(work[1].e.args[1]).some
        /\ parse_method(work[1].e.args[2]).some
        /\ parse_handler_name(work[1].e.args[2]).some )
      => LET P == CurrentBasePath
             L == work[1].e.args[1].s
             path == routes'[Len(routes')].path
         IN  /\ Len(routes') = Len(routes) + 1
             /\ SubSeq(routes', 1, Len(routes)) = routes
             /\ P = << >> => path = L
             /\ P # << >> /\ L # << >> /\ L[1] = "/" => path = P \o L
             /\ P # << >> /\ (L = << >> \/ L[1] # "/") => path = P \o << "/" >> \o L
             /\ P = << "/", "a" >> /\ L = << "b" >> => path = << "/", "a", "/", "b" >>
             /\ P = << "/", "a" >> /\ L = << "/", "c" >> => path = << "/", "a", "/", "c" >>
    ]_vars

\* Under the nest prefix "/a" the literals "b" and "/c" were registered.
C2_Witness ==
  /\ pc = "done"
  /\ << "/", "a", "/", "b" >> \in RoutePathsFound
  /\ << "/", "a", "/", "c" >> \in RoutePathsFound

\* The literals in path position: the first argument of the route and nest
\* calls of an expression.
RECURSIVE PathLiterals(_)
PathLiterals(e) ==
  IF e.k = "mcall"
  THEN PathLiterals(e.recv)
       \cup (IF e.m \in { MRoute, MNest } /\ Len(e.args) > 0 /\ e.args[1].k = "lit"
             THEN { e.args[1].s } ELSE {})
       \cup UNION { PathLiterals(e.args[i]) : i \in 1..Len(e.args) }
  ELSE IF e.k = "call"
  THEN PathLiterals(e.func) \cup UNION { PathLiterals(e.args[i]) : i \in 1..Len(e.args) }
  ELSE {}

\* The literals in path position anywhere in the tree.
FnExprs(file) ==
  UNION { { file.items[i].stmts[s].e : s \in 1..Len(file.items[i].stmts) } :
            i \in { j \in 1..Len(file.items) : file.items[j].kind = "fn" } }

TreeExprs == UNION { FnExprs(world.files[f]) : f \in DOMAIN world.files }

TreeLiterals == UNION { PathLiterals(e) : e \in TreeExprs }

\* C3 as stated: every Route's path starts with "/", whatever the literals.
C3_PathsRooted == \A q \in RoutePathsFound : Rooted(q)

\* C3 amended: every Route's path starts with "/" in a tree where every
\* literal registered with route and every prefix literal of nest starts
\* with "/".
C3_RootedLiteralsRootedPaths ==
  \/ \A q \in RoutePathsFound : Rooted(q)
  \/ \E l \in TreeLiterals : ~Rooted(l)

\* Routes were found two nests deep, from rooted literals only.
C3_Witness ==
  /\ pc = "done"
  /\ \A l \in TreeLiterals : Rooted(l)
  /\ << "/", "a", "/", "n", "/", "e" >> \in RoutePathsFound

\* The causes the run may fail for: (a) the base directory is missing,
\* (b) the primary handler file is missing, (c) it cannot be read or
\* parsed, (d) the output cannot be written.
ListedCauses ==
  { "base directory does not exist", "handler file does not exist",
    "handler file cannot be read", "handler file cannot be parsed",
    "output file cannot be written" }

\* The tree is well formed: every route and nest call has its two
\* arguments and every merge call its one.
RECURSIVE WellFormed(_)
WellFormed(e) ==
  IF e.k = "mcall"
  THEN /\ WellFormed(e.recv)
       /\ e.m \in { MRoute, MNest } => Len(e.args) >= 2
       /\ e.m = MMerge => Len(e.args) >= 1
       /\ \A i \in 1..Len(e.args) : WellFormed(e.args[i])
  ELSE IF e.k = "call"
  THEN WellFormed(e.func) /\ \A i \in 1..Len(e.args) : WellFormed(e.args[i])
  ELSE TRUE

TreeWellFormed == \A e \in TreeExprs : WellFormed(e)

\* C4: the run fails only for one of the listed causes; whatever the
\* condition of the model files, the module router files and the module
\* handler files, a run that has failed has failed for one of them.
C4_FailsOnlyForListedCauses ==
  (pc = "failed" /\ TreeWellFormed) => err \in ListedCauses

\* The head of the work is the visit of a module of which no candidate
\* file exists.
AtMissingModule ==
  /\ Walking
  /\ work[1].t = "module"
  /\ ~FirstExistingPath(world.files, ModuleFilePaths(work[1].path)).some

\* C5: the visit of a module without a candidate file only adds a warning:
\* the run goes on, no Route is added, the prefixes are as they were, the
\* pop of the call and the rest of the chain stay to be interpreted; and no
\* Route ever carries the prefix "/x" of a nest whose module is missing
\* (in these trees "/x" is the prefix of the nests of the missing module x
\* only, and calls follow them in their chains).
C5_MissingModuleIsSkipped ==
  [][ /\ AtMissingModule
         => /\ pc' = "walk"
            /\ routes' = routes
            /\ state_stack' = state_stack
            /\ current_module' = current_module
            /\ diagnostics' = Append(diagnostics, Warn("module file not found", work[1].name))
            /\ work' = Tail(work)
            /\ work'[1].t = "pop"
      /\ \A i \in 1..Len(routes') : ~Contains(routes'[i].path, pX)
    ]_vars

\* After the nest of the missing module x under "/a", the next call of the
\* chain registered "/cm" and the run ended well.
C5_Witness ==
  /\ pc = "done"
  /\ \E i \in 1..Len(diagnostics) : diagnostics[i] = Warn("module file not found", sX)
  /\ << "/", "a", "/", "c", "m" >> \in RoutePathsFound

\* The model file the loop is at is missing or does not parse.
AtBadModelFile ==
  /\ InModels
  /\ \/ world.model_files[idx] \notin DOMAIN world.files
     \/ world.files[world.model_files[idx]].st = "unparseable"

\* C6: a model file that is missing or does not parse adds no structure and
\* one warning, and the run goes on to the next file with its routes and
\* handlers untouched.
C6_BadModelFileIsSkipped ==
  [][ AtBadModelFile
      => /\ pc' = "models"
         /\ idx' = idx + 1
         /\ all_models' = all_models
         /\ Len(diagnostics') = Len(diagnostics) + 1
         /\ diagnostics'[Len(diagnostics')].kind
              \in { "model file not found", "failed to parse model file" }
         /\ diagnostics'[Len(diagnostics')].what = world.model_files[idx]
         /\ routes' = routes
         /\ handlers' = handlers
    ]_vars

\* One model file was missing and another did not parse, and the output
\* was written with the routes documented.
C6_Witness ==
  /\ pc = "done"
  /\ \E i \in 1..Len(diagnostics) : diagnostics[i].kind = "model file not found"
  /\ \E i \in 1..Len(diagnostics) : diagnostics[i].kind = "failed to parse model file"
  /\ all_models = EmptyMap
  /\ output.some
  /\ Len(output.v.paths) > 0

\* Route i has a HandlerInfo.
Documented(i) == routes[i].handler \in DOMAIN handlers

SameSlot(i, j) ==
  /\ routes[i].path = routes[j].path
  /\ ToLower(routes[i].method) = ToLower(routes[j].method)

\* The last documented route with the path and method of route i.
LastOfSlot(i) ==
  CHOOSE j \in 1..Len(routes) :
    /\ Documented(j) /\ SameSlot(i, j)
    /\ \A k \in (j + 1)..Len(routes) : ~(Documented(k) /\ SameSlot(i, k))

OperationOf(i) == build_operation(routes[i], handlers[routes[i].handler], all_models)

\* C7: the routes keep their duplicates, and in the document the operation
\* at paths[path][method] of every documented route is the one built from
\* the last documented route with that path and lower-cased method; so two
\* methods of one path each keep their own.
C7_LastRegisteredWins ==
  openapi.some =>
    \A i \in 1..Len(routes) :
      Documented(i) =>
        /\ JHas(openapi.v.paths, routes[i].path)
        /\ JHas(JGet(openapi.v.paths, routes[i].path), ToLower(routes[i].method))
        /\ JGet(JGet(openapi.v.paths, routes[i].path), ToLower(routes[i].method))
             = OperationOf(LastOfSlot(i))

\* "/b" was registered for get twice, with handlers whose operations
\* differ, and once for post.
C7_Witness ==
  /\ pc = "done"
  /\ \E i, j, k \in 1..Len(routes) :
       /\ i < j
       /\ Documented(i) /\ Documented(j) /\ Documented(k)
       /\ SameSlot(i, j)
       /\ OperationOf(i) # OperationOf(j)
       /\ routes[k].path = routes[i].path
       /\ ~SameSlot(i, k)

\* The documents generate_openapi can return, one per order in which the
\* structures can be met.
Documents ==
  { generate_openapi(routes, handlers, all_models, order) :
      order \in Orders(DOMAIN all_models) }

MaxDocs == 3

dSummaryLine == << " ", "S", "u", "m", "m", "a", "r", "y", " ", "l", "i", "n", "e" >>

dDetailOne == << " ", "D", "e", "t", "a", "i", "l", " ", "o", "n", "e" >>

dDetailTwo == << " ", "D", "e", "t", "a", "i", "l", " ", "t", "w", "o", " ", " " >>

dBlank == << " ", " " >>

dHidden == << "h", "i", "d", "d", "e", "n" >>

\* The attributes tried: /// lines (the text after the slashes, as written)
\* and #[doc(hidden)].
DocMenu ==
  { DocLine(dSummaryLine), DocLine(<< >>), DocLine(dDetailOne), DocLine(dDetailTwo),
    DocLine(dBlank), DocList(dHidden) }

\* "Summary line", "", "Detail one", "Detail two"
DocExample ==
  << DocLine(dSummaryLine), DocLine(<< >>), DocLine(dDetailOne), DocLine(dDetailTwo) >>

InitDocs ==
  /\ AtRest
  /\ fin \in { Some(ds) : ds \in SeqsUpTo(DocMenu, MaxDocs) \cup { DocExample } }
  /\ fout = None

ParseDocs ==
  /\ pc = "call"
  /\ fin.some
  /\ ~fout.some
  /\ fout' = parse_handler(FileIn("ok", << FnH4, FnItem(sH1, fin.v, << >>, None, << >>) >>),
                           sH1)
  /\ UNCHANGED << run, fin >>

NextDocs == ParseDocs

SpecDocs == InitDocs /\ [][NextDocs]_vars

\* The doc-comment lines among the attributes, each trimmed, the empty ones
\* dropped.
RECURSIVE KeptLines(_)
KeptLines(docs) ==
  IF Len(docs) = 0 THEN << >>
  ELSE (IF docs[1].form = "nv" /\ Trim(docs[1].text) # << >>
        THEN << Trim(docs[1].text) >> ELSE << >>)
       \o KeptLines(Tail(docs))

\* C11: the doc lines are trimmed and the empty ones dropped; the first
\* that remains is the summary, the others joined by newline are the
\* description; one remaining line leaves the description absent, none
\* leaves both absent; "Summary line", "", "Detail one", "Detail two" give
\* "Summary line" and "Detail one\nDetail two".
C11_DocSplit ==
  fout.some =>
    LET kept == KeptLines(fin.v)
    IN  /\ Len(kept) = 0 => ~fout.v.summary.some /\ ~fout.v.description.some
        /\ Len(kept) > 0 => fout.v.summary = Some(kept[1])
        /\ Len(kept) = 1 => ~fout.v.description.some
        /\ Len(kept) > 1 => fout.v.description = Some(Join(Tail(kept), << "\n" >>))
        /\ fin.v = DocExample =>
             /\ fout.v.summary = Some(Trim(dSummaryLine))
             /\ fout.v.description
                  = Some(Trim(dDetailOne) \o << "\n" >> \o Trim(dDetailTwo))
             /\ Len(fout.v.description.v) = 21

\* The example's four lines were split.
C11_Witness ==
  /\ fout.some
  /\ fin.v = DocExample
  /\ fout.v.description.some

(***************************************************************************)
(* The operation of a handler (SpecOperation): a run is one call of        *)
(* build_operation for a route whose handler has the parameter types fin,  *)
(* with the structures of the two model files declared.                    *)
(***************************************************************************)

\* The most parameters tried on a handler.
MaxParams == 3

sState == << "S", "t", "a", "t", "e" >>

\* The parameter types tried: the four extractors around declared
\* structures, and a parameter that is no extractor.
ParamMenu ==
  { TGen(KJson, << TName(sStructA) >>), TGen(KForm, << TName(sStructB) >>),
    TGen(KJson, << TName(sStructC) >>), TGen(KQuery, << TName(sStructA) >>),
    TGen(KPath, << TName(sStructC) >>), TGen(sState, << TName(sStructA) >>) }

DeclaredModels == MapExtend(parse_models(FileIn("ok", FormItems)),
                            parse_models(FileIn("ok", TypesItems)))

PostB == [path |-> pB, method |-> sPost, handler |-> sH2, module |-> None]

InitOperation ==
  /\ AtRest
  /\ fin \in { Some(ps) : ps \in SeqsUpTo(ParamMenu, MaxParams) }
  /\ fout = None

BuildOperation ==
  /\ pc = "call"
  /\ fin.some
  /\ ~fout.some
  /\ fout' = Some(build_operation(
                    PostB,
                    parse_handler(FileIn("ok", << FnItem(sH2, << >>, fin.v, None, << >>) >>),
                                  sH2).v,
                    DeclaredModels))
  /\ UNCHANGED << run, fin >>

NextOperation == BuildOperation

SpecOperation == InitOperation /\ [][NextOperation]_vars

\* The Json and Form parameters of a handler, in parameter order.
BodyParams(params) ==
  SelectSeq(params, LAMBDA ty : ty.segs[1].ident \in { KJson, KForm })

\* C12: the requestBody of the operation references the inner type of the
\* first Json or Form extractor of the handler, and is absent when the
\* handler has none.
C12_FirstBodyExtractor ==
  fout.some =>
    LET bodies == BodyParams(fin.v)
    IN  /\ Len(bodies) = 0 => "requestBody" \notin DOMAIN fout.v
        /\ Len(bodies) > 0 =>
             /\ "requestBody" \in DOMAIN fout.v
             /\ fout.v.requestBody = RequestBody(bodies[1].segs[1].args[1].segs[1].ident)

(***************************************************************************)
(* Properties of the run (Spec), continued                                 *)
(***************************************************************************)

\* The operation of the document at a path and lower-cased method.
OperationAt(doc, path, method) == JGet(JGet(doc.paths, path), method)

\* The schema of the 200 response of an operation.
Schema200(op) == op.responses["200"].content["application/json"].schema

\* What C13 says of the tree of the one call GET /health, but for the
\* schema of the response.
HealthDocumented(doc) ==
  /\ JKeys(doc.paths) = { pHealth }
  /\ JKeys(JGet(doc.paths, pHealth)) = { sGet }
  /\ OperationAt(doc, pHealth, sGet).operationId = sHealth
  /\ DOMAIN OperationAt(doc, pHealth, sGet).responses = { "200" }
  /\ "parameters" \notin DOMAIN OperationAt(doc, pHealth, sGet)
  /\ "requestBody" \notin DOMAIN OperationAt(doc, pHealth, sGet)

\* C13 as stated: the tree of the one call GET "/health" gives
\* paths["/health"]["get"] with operationId "health", a 200 response of
\* schema {type: object}, and neither parameters nor requestBody.
C13_HealthObjectSchema ==
  (pc = "done" /\ world = HealthWorld) =>
    /\ HealthDocumented(output.v)
    /\ Schema200(OperationAt(output.v, pHealth, sGet)) = ObjectSchema

\* C13 amended: the same, with a 200 response of schema {type: string}.
C13_HealthStringSchema ==
  (pc = "done" /\ world = HealthWorld) =>
    /\ HealthDocumented(output.v)
    /\ Schema200(OperationAt(output.v, pHealth, sGet)) = StringSchema

\* The document of the /health tree was written.
C13_Witness ==
  /\ pc = "done"
  /\ world = HealthWorld
  /\ routes = << [path |-> pHealth, method |-> sGet, handler |-> sHealth, module |-> None] >>
  /\ output.some


\* The structures model file number i of the command line declares, none
\* when the file is missing or does not parse.
DeclaredBy(i) ==
  IF world.model_files[i] \in DOMAIN world.files
  THEN parse_models(world.files[world.model_files[i]])
  ELSE EmptyMap

\* The model files, by number, that declare the structure `name`.
Declaring(name) ==
  { i \in 1..Len(world.model_files) : name \in DOMAIN DeclaredBy(i) }

\* The one listed last of them.
LastDeclaring(name) ==
  CHOOSE i \in Declaring(name) : \A j \in Declaring(name) : j <= i

\* C14: once every model file is read, the model table holds every
\* structure name some model file declares, each with the fields of the
\* declaration in the file listed last among those that declare it, and
\* components.schemas holds the schema of exactly these declarations.
C14_LaterModelFileWins ==
  pc \in { "generate", "write", "done" } =>
    /\ DOMAIN all_models = UNION { DOMAIN DeclaredBy(i) : i \in 1..Len(world.model_files) }
    /\ \A name \in DOMAIN all_models :
         all_models[name] = DeclaredBy(LastDeclaring(name))[name]
    /\ openapi.some =>
         /\ JKeys(openapi.v.components.schemas) = DOMAIN all_models
         /\ \A name \in DOMAIN all_models :
              JGet(openapi.v.components.schemas, name) =
                StructSchema(DeclaredBy(LastDeclaring(name))[name], all_models)

\* A document was written from two model files that both declare B with
\* different fields, next to structures only one of them declares.
C14_Witness ==
  /\ pc = "done"
  /\ output.some
  /\ Cardinality(Declaring(sStructB)) >= 2
  /\ \E i, j \in Declaring(sStructB) : DeclaredBy(i)[sStructB] # DeclaredBy(j)[sStructB]
  /\ Declaring(sStructA) # {}
  /\ Declaring(sStructA) \cap Declaring(sStructC) = {}
  /\ { sStructA, sStructC } \subseteq JKeys(output.v.components.schemas)


\* The nest and merge calls whose arm is being executed, the outermost
\* first: the calls of the pending pops, the deepest frame last in `work`.
RECURSIVE EnclosingOf(_)
EnclosingOf(w) ==
  IF Len(w) = 0 THEN << >>
  ELSE EnclosingOf(Tail(w)) \o (IF w[1].t = "pop" THEN << w[1].call >> ELSE << >>)

Enclosing == EnclosingOf(work)

\* The prefix literals of the nest calls among `calls`, concatenated in
\* order; a merge call adds nothing.
RECURSIVE NestLiterals(_)
NestLiterals(calls) ==
  IF Len(calls) = 0 THEN << >>
  ELSE (IF calls[1].m = MNest THEN calls[1].args[1].s ELSE << >>)
       \o NestLiterals(Tail(calls))

RECURSIVE InSourceOrder(_, _)
RECURSIVE AllInSourceOrder(_, _)
InSourceOrder(e, cm) ==
  IF e.k = "call" THEN AllInSourceOrder(<< e.func >> \o e.args, cm)
  ELSE IF e.k # "mcall" THEN << >>
  ELSE InSourceOrder(e.recv, cm) \o
       (IF e.m = MRoute
        THEN IF /\ Len(e.args) >= 2
                /\ parse_string_arg(e.args[1]).some
                /\ parse_method(e.args[2]).some
                /\ parse_handler_name(e.args[2]).some
             THEN << [literal |-> e.args[1].s,
                      method  |-> parse_method(e.args[2]).v,
                      handler |-> parse_handler_name(e.args[2]).v] >>
             ELSE << >>
        ELSE IF e.m \in { MNest, MMerge }
        THEN LET name == IF e.m = MNest
                         THEN IF Len(e.args) >= 2 /\ parse_string_arg(e.args[1]).some
                              THEN parse_nest_handler(e.args[2]) ELSE None
                         ELSE IF Len(e.args) >= 1 THEN parse_merge_handler(e.args[1]) ELSE None
                 file == IF name.some
                         THEN FirstExistingPath(world.files,
                                ModuleFilePaths(calculate_module_path(cm, name.v)))
                         ELSE None
             IN  IF file.some
                 THEN IF world.files[file.v].st = "ok"
                      THEN AllInSourceOrder(RouterExprs(world.files[file.v].items),
                                            extract_module_from_path(file.v))
                      ELSE << >>
                 ELSE IF e.m = MMerge /\ Len(e.args) >= 1 /\ ~name.some
                      THEN InSourceOrder(e.args[1], cm)
                      ELSE << >>
        ELSE AllInSourceOrder(e.args, cm))
AllInSourceOrder(es, cm) ==
  IF Len(es) = 0 THEN << >>
  ELSE InSourceOrder(es[1], cm) \o AllInSourceOrder(Tail(es), cm)

\* The register calls of the whole tree, read from the handler file.
TreeInSourceOrder ==
  IF world.handler_file \in DOMAIN world.files /\ HandlerFile.st = "ok"
  THEN AllInSourceOrder(FileExprs(HandlerFile.items),
                        extract_module_from_path(world.handler_file))
  ELSE << >>

\* Route r is the one of register call c.
RouteOf(r, c) ==
  /\ r.method = c.method
  /\ r.handler = c.handler
  /\ Len(r.path) >= Len(c.literal)
  /\ SubSeq(r.path, Len(r.path) - Len(c.literal) + 1, Len(r.path)) = c.literal

\* C16: the route list is at every moment the beginning of the register
\* calls of the tree taken in source order (receiver before call, the
\* routes of a nested or merged router in the place of its nest or merge
\* call), and is all of them once the walk is over.
C16_RoutesInSourceOrder ==
  pc # "start" =>
    /\ Len(routes) <= Len(TreeInSourceOrder)
    /\ \A i \in 1..Len(routes) : RouteOf(routes[i], TreeInSourceOrder[i])
    /\ pc \in { "handlers", "models", "generate", "write", "done" } =>
         Len(routes) = Len(TreeInSourceOrder)

\* The walk is over on a chain that registers /b, then nests a router of
\* three routes under /a, then registers /c.
C16_Witness ==
  /\ pc = "done"
  /\ Len(routes) = 5
  /\ routes[1].path = pB /\ routes[1].handler = sH1
  /\ \A i \in 2..4 : StartsWith(routes[i].path, pA) /\ routes[i].module # None
  /\ routes[5].path = pC /\ routes[5].handler = sH4


\* <q>/handlers.rs, <q>/mod.rs and <q>.rs below src, for the qualifier
\* path q.
Candidates(q) ==
  << << SrcDir >> \o q \o << HandlersRs >>,
     << SrcDir >> \o q \o << ModRs >>,
     << SrcDir >> \o SubSeq(q, 1, Len(q) - 1) \o << q[Len(q)] \o DotRs >> >>

\* The numbers of the candidates that exist.
ExistingOf(cands) == { i \in 1..Len(cands) : cands[i] \in DOMAIN world.files }

\* The router expressions of a file, none when it cannot be read or parsed.
WalkedOf(file) == IF file.st = "ok" THEN RouterExprs(file.items) ELSE << >>

\* The register call that tells the candidate files of module u apart, and
\* the rank of each candidate in the probing order.
MarkerOf(kind) == IF kind = "handlers" THEN pCh ELSE IF kind = "mod" THEN pCm ELSE pC

RankOf(kind) == IF kind = "handlers" THEN 1 ELSE IF kind = "mod" THEN 2 ELSE 3

\* C17: a nest or merge of module m at qualifier chain Q looks for the
\* router at Q+[m]; the step that resolves it takes the first of
\* <q>/handlers.rs, <q>/mod.rs, <q>.rs that exists and schedules the router
\* expressions of that file only (none when it cannot be read or parsed, or
\* when no candidate exists); and no route of a candidate file of module u
\* is ever found while a candidate that precedes it exists.
C17_FirstExistingCandidateOnly ==
  /\ [](\A i \in 1..Len(routes) : \A kd \in UKinds :
          (routes[i].handler = sH2 /\ EndsWith(routes[i].path, MarkerOf(kd))) =>
            /\ UPath(kd) \in DOMAIN world.files
            /\ \A other \in UKinds :
                 RankOf(other) < RankOf(kd) => UPath(other) \notin DOMAIN world.files)
  /\ [][ /\ (Walking /\ work[1].t = "call" /\ Len(work') > 0 /\ work'[1].t = "module") =>
              /\ work[1].e.m \in { MNest, MMerge }
              /\ work'[1].path = current_module \o << work'[1].name >>
         /\ (Walking /\ work[1].t = "module") =>
              /\ routes' = routes
              /\ IF ExistingOf(Candidates(work[1].path)) = {}
                 THEN work' = Tail(work)
                 ELSE LET cands  == Candidates(work[1].path)
                          first  == CHOOSE i \in ExistingOf(cands) :
                                      \A j \in ExistingOf(cands) : i <= j
                          walked == WalkedOf(world.files[cands[first]])
                      IN  /\ Len(work') = Len(walked) + Len(work)
                          /\ SubSeq(work', 1, Len(walked)) = ExprTasks(walked)
                          /\ work'[Len(walked) + 1].t = "restore"
                          /\ SubSeq(work', Len(walked) + 2, Len(work')) = Tail(work)
       ]_vars

\* The walk is over on a tree where u/handlers.rs does not exist, u/mod.rs
\* exists and does not parse, u.rs exists with a router: nothing of u.rs
\* was found.
C17_Witness ==
  /\ pc = "done"
  /\ UPath("handlers") \notin DOMAIN world.files
  /\ UPath("mod") \in DOMAIN world.files
  /\ world.files[UPath("mod")].st = "unparseable"
  /\ UPath("flat") \in DOMAIN world.files
  /\ world.files[UPath("flat")].st = "ok"
  /\ Len(WalkedOf(world.files[UPath("flat")])) > 0
  /\ Len(routes) = 1


\* C18: the step that resolves module m at qualifier chain Q to a file
\* makes Q+[m] the current qualifier chain, whichever candidate file
\* matched, and so every route of the router of module u, nested or merged
\* from the handler file (Q empty), carries the qualifier [u].
C18_QualifiersCompose ==
  /\ [](\A i \in 1..Len(routes) :
          routes[i].handler = sH2 => routes[i].module = Some(<< sU >>))
  /\ [][ ( /\ Walking
           /\ work[1].t = "module"
           /\ ExistingOf(Candidates(work[1].path)) # {} )
         => current_module' = work[1].path ]_vars


\* The HandlerInfo the search of route r finds: in the primary handler
\* file, else in the first existing candidate handler file of r's module.
FoundFor(r) ==
  IF parse_handler(HandlerFile, r.handler).some
  THEN parse_handler(HandlerFile, r.handler)
  ELSE IF ~r.module.some THEN None
  ELSE LET first == FirstExistingPath(world.files, HandlerFilePaths(r.module.v))
       IN  IF first.some THEN parse_handler(world.files[first.v], r.handler) ELSE None

\* The routes, by number, that name the handler and whose search finds it.
FindersOf(name) ==
  { i \in 1..Len(routes) : routes[i].handler = name /\ FoundFor(routes[i]).some }

\* C19: once the handlers of all routes are resolved, the handler table
\* holds for every name the HandlerInfo found for the first route that
\* names it, and an entry once stored is never replaced.
C19_FirstFoundHandlerWins ==
  /\ [](pc \in { "models", "generate", "write", "done" } =>
          \A name \in DOMAIN handlers :
            /\ FindersOf(name) # {}
            /\ handlers[name] =
                 FoundFor(routes[CHOOSE i \in FindersOf(name) :
                                   \A j \in FindersOf(name) : i <= j]).v)
  /\ [][ pc = "handlers" =>
           \A name \in DOMAIN handlers :
             name \in DOMAIN handlers' /\ handlers'[name] = handlers[name] ]_vars


\* The routes without route number i.
WithoutRoute(i) == SubSeq(routes, 1, i - 1) \o SubSeq(routes, i + 1, Len(routes))

\* The document holds nothing that comes from route number i: it is the
\* one generated from the other routes.
Omitted(i) ==
  output.v.paths = PathsFrom(<< >>, WithoutRoute(i), handlers, all_models)

\* A warning of the handler search about route r, and the notice of the
\* generation about it.
SearchWarned(r) ==
  \E n \in 1..Len(diagnostics) :
    \/ diagnostics[n] \in { Warn("handler not found", r.handler),
                            Warn("handler not found in module", r.handler) }
    \/ r.module.some /\ diagnostics[n] = Warn("module handler file not found", r.module.v)

Noticed(r) ==
  \E n \in 1..Len(diagnostics) : diagnostics[n] = Warn("route without handler", r.path)

\* C20 as stated: in the written document, a route whose own search (the
\* primary handler file, then the handler file of its module) finds no
\* declaration of its handler has no operation of its own, and a
\* diagnostic was printed for it.
C20_UnfoundRouteOmitted ==
  pc = "done" =>
    \A i \in 1..Len(routes) :
      ~FoundFor(routes[i]).some => Omitted(i) /\ SearchWarned(routes[i])

\* C20 amended: the search of every route that finds no declaration prints
\* a warning; a route whose handler name was found by the search of no
\* route at all has no entry in the handler table, has no operation of its
\* own in the written document and is named in a notice; and every route
\* whose handler name has an entry is documented at its path and method.
C20_UnfoundNameOmitted ==
  pc = "done" =>
    \A i \in 1..Len(routes) :
      /\ ~FoundFor(routes[i]).some => SearchWarned(routes[i])
      /\ FindersOf(routes[i].handler) = {} =>
           /\ routes[i].handler \notin DOMAIN handlers
           /\ Omitted(i)
           /\ Noticed(routes[i])
      /\ FindersOf(routes[i].handler) # {} =>
           /\ routes[i].handler \in DOMAIN handlers
           /\ JHas(output.v.paths, routes[i].path)
           /\ JHas(JGet(output.v.paths, routes[i].path), ToLower(routes[i].method))

\* A document was written for a tree with a route whose handler is
\* declared nowhere, registered before and after routes that are
\* documented.
C20_Witness ==
  /\ pc = "done"
  /\ \E i, j, k \in 1..Len(routes) :
       /\ i < j /\ j < k
       /\ FindersOf(routes[j].handler) = {}
       /\ ~JHas(output.v.paths, routes[j].path)
       /\ FoundFor(routes[i]).some /\ JHas(output.v.paths, routes[i].path)
       /\ FoundFor(routes[k]).some /\ JHas(output.v.paths, routes[k].path)


\* The paths of the routes found so far, in order.
RoutePathList == [i \in 1..Len(routes) |-> routes[i].path]

\* The head of the work is a call whose arguments the walk descends into:
\* a method that is no routing primitive, or a merge whose argument is no
\* module reference.
AtDescendingCall ==
  /\ Walking
  /\ work[1].t = "call"
  /\ \/ work[1].e.m \notin { MRoute, MNest, MMerge }
     \/ /\ work[1].e.m = MMerge
        /\ Len(work[1].e.args) >= 1
        /\ ~parse_merge_handler(work[1].e.args[1]).some

\* C21: at a call that is no routing primitive, or a merge of an
\* expression that is no module reference, the arguments are visited next,
\* in order, under the prefix and module in force at the call; and in the
\* trees where the router of u, nested under /a, holds such a call around
\* route("/i", ..) between its two register calls, the route /a/i is found
\* between theirs.
C21_BuriedRegistersKept ==
  /\ []((world \in BuriedWorlds /\ pc \in { "handlers", "models", "generate", "write", "done" })
          => RoutePathList = << pB, pA \o pE, pA \o pI, pA \o pCm, pC >>)
  /\ [][ AtDescendingCall =>
           /\ work' = ExprTasks(work[1].e.args) \o Tail(work)
           /\ routes' = routes
           /\ state_stack' = state_stack
           /\ current_module' = current_module
           /\ pc' = pc ]_vars

\* The document of such a tree was written, with the operation of /a/i.
C21_Witness ==
  /\ pc = "done"
  /\ world \in BuriedWorlds
  /\ RoutePathList = << pB, pA \o pE, pA \o pI, pA \o pCm, pC >>
  /\ JHas(output.v.paths, pA \o pI)


(***************************************************************************)
(* Nested generic types (SpecNested): one call of rust_type_to_openapi on  *)
(* the compact spelling of a type built from wrappers around a name.       *)
(***************************************************************************)

\* The deepest nesting of wrappers tried.
MaxNest == 2

NestNames == { TString, sI32, sStructA }

\* A type as a tree: a name, or a wrapper around a type.
NameTree(t) == [w |-> "Name", of |-> t]

RECURSIVE NestTrees(_)
NestTrees(n) ==
  IF n = 0 THEN { NameTree(t) : t \in NestNames }
  ELSE NestTrees(n - 1) \cup { [w |-> w, of |-> t] : w \in Wrappers, t \in NestTrees(n - 1) }

\* The spelling without spaces: Vec<T>, Option<T>, HashMap<String,V>.
RECURSIVE Compact(_)
Compact(tree) ==
  IF tree.w = "Name" THEN tree.of ELSE Wrap(tree.w, Compact(tree.of))

\* The schema built along the structure of the type.
RECURSIVE Structural(_, _)
Structural(tree, models) ==
  IF tree.w = "Name" THEN SimpleTypeToOpenapi(tree.of, models)
  ELSE IF tree.w = "Vec" THEN [type |-> "array", items |-> Structural(tree.of, models)]
  ELSE IF tree.w = "Option" THEN WithKey(Structural(tree.of, models), "nullable", TRUE)
  ELSE [type |-> "object", additionalProperties |-> Structural(tree.of, models)]

InitNested ==
  /\ AtRest
  /\ fin \in { Some([tree |-> t, models |-> m]) :
                 t \in NestTrees(MaxNest), m \in { Declared({}), Declared({ sStructA }) } }
  /\ fout = None

MapNested ==
  /\ pc = "call"
  /\ fin.some
  /\ ~fout.some
  /\ fout' = Some(rust_type_to_openapi(Compact(fin.v.tree), fin.v.models))
  /\ UNCHANGED << run, fin >>

NextNested == MapNested

SpecNested == InitNested /\ [][NextNested]_vars

\* C22: the schema of the compact spelling of every type of wrappers
\* nested around a name is the one built along its structure: Vec<T> an
\* array of the schema of T, Option<T> the schema of T with nullable true,
\* HashMap<String,V> an object with the schema of V as
\* additionalProperties.
C22_WrappersCompose ==
  fout.some => fout.v = Structural(fin.v.tree, fin.v.models)


(***************************************************************************)
(* The parameters of an operation (SpecMerge): one call of build_operation *)
(* for a route whose path has parameters and a handler whose Query and     *)
(* Path extractors declare structures.                                     *)
(***************************************************************************)

\* The most extractors tried on a handler.
MaxExtractors == 2

ExtractorMenu ==
  { TGen(KQuery, << TName(sStructA) >>), TGen(KPath, << TName(sStructA) >>),
    TGen(KPath, << TName(sStructB) >>), TGen(KQuery, << TName(sStructC) >>),
    TGen(KJson, << TName(sStructA) >>) }

\* Route paths whose parameters have the names of fields (x and y of A, z
\* of B) and names of no field.
MergePaths ==
  { pB,
    << "/", ":" >> \o sFx,
    << "/", ":" >> \o sFx \o << "/", "{" >> \o sId \o << "}" >>,
    << "/", "{" >> \o sFz \o << "}", "/", ":" >> \o sFy,
    << "/", ":" >> \o sId }

InitMerge ==
  /\ AtRest
  /\ fin \in { Some([path |-> p, params |-> ps]) :
                 p \in MergePaths, ps \in SeqsUpTo(ExtractorMenu, MaxExtractors) }
  /\ fout = None

MergeOperation ==
  /\ pc = "call"
  /\ fin.some
  /\ ~fout.some
  /\ fout' = Some(build_operation(
                    [path |-> fin.v.path, method |-> sGet, handler |-> sH2, module |-> None],
                    parse_handler(FileIn("ok", << FnItem(sH2, << >>, fin.v.params, None, << >>) >>),
                                  sH2).v,
                    DeclaredModels))
  /\ UNCHANGED << run, fin >>

NextMerge == MergeOperation

SpecMerge == InitMerge /\ [][NextMerge]_vars

\* The parameters the Query and Path extractors declare, in order: one per
\* field of the structure, required unless the field type starts with
\* Option.
RECURSIVE DeclaredOf(_)
DeclaredOf(params) ==
  IF Len(params) = 0 THEN << >>
  ELSE (IF params[1].segs[1].ident \in { KQuery, KPath }
        THEN LET info == DeclaredModels[params[1].segs[1].args[1].segs[1].ident]
             IN  [i \in 1..Len(info.fields) |->
                    [name     |-> info.fields[i].name,
                     in       |-> IF params[1].segs[1].ident = KPath THEN "path" ELSE "query",
                     required |-> ~StartsWith(info.fields[i].ty, TOption),
                     schema   |-> rust_type_to_openapi(info.fields[i].ty, DeclaredModels)]]
        ELSE << >>)
       \o DeclaredOf(Tail(params))

\* The parameters of the operation, none when the key is absent.
ParametersOf(op) == IF "parameters" \in DOMAIN op THEN op.parameters ELSE << >>

\* C23: the parameters of the operation are the declared ones, all of them
\* and in order, followed by the auto-derived path parameters but for those
\* whose name a declared path parameter has.
C23_DeclaredPathParamsWin ==
  fout.some =>
    LET declared == DeclaredOf(fin.v.params)
        auto     == extract_path_params(fin.v.path)
    IN  ParametersOf(fout.v) =
          declared
          \o SelectSeq(auto, LAMBDA p :
               ~\E i \in 1..Len(declared) :
                  declared[i].name = p.name /\ declared[i].in = "path")


\* The last declaration of the structure `name` among the items of a file.
DeclarationOf(items, name) ==
  items[CHOOSE i \in 1..Len(items) :
          /\ items[i].kind = "struct" /\ items[i].name = name
          /\ \A j \in (i + 1)..Len(items) :
               ~(items[j].kind = "struct" /\ items[j].name = name)]

\* The declaration the model table's entry `name` comes from.
SourceOf(name) ==
  DeclarationOf(world.files[world.model_files[LastDeclaring(name)]].items, name)

\* C24: once every model file is read, every entry of the model table comes
\* from a declaration with named fields, whose names it keeps in order, or
\* from a tuple-style declaration, whose fields it names _0, _1, ...; a
\* unit structure has no entry, and none in components.schemas.
C24_UnitStructsIgnored ==
  pc \in { "generate", "write", "done" } =>
    /\ \A name \in DOMAIN all_models :
         /\ SourceOf(name).shape \in { "named", "tuple" }
         /\ Len(all_models[name].fields) = Len(SourceOf(name).fields)
         /\ \A i \in 1..Len(all_models[name].fields) :
              all_models[name].fields[i].name =
                IF SourceOf(name).shape = "named" THEN SourceOf(name).fields[i].name
                ELSE << "_" >> \o IntText(i - 1)
    /\ openapi.some =>
         \A name \in JKeys(openapi.v.components.schemas) :
           name \in DOMAIN all_models /\ SourceOf(name).shape # "unit"


\* The context stack that the nest and merge calls `calls`, interpreted one
\* inside the other from an empty stack, leave pushed: a nest pushes its
\* prefix after the one in force with its module, a merge the pair in
\* force.
RECURSIVE StackOf(_)
StackOf(calls) ==
  IF Len(calls) = 0 THEN << >>
  ELSE LET below == StackOf(SubSeq(calls, 1, Len(calls) - 1))
           call  == calls[Len(calls)]
           top   == IF Len(below) > 0 THEN below[Len(below)] ELSE [bp |-> << >>, m |-> None]
       IN  Append(below,
                  IF call.m = MNest
                  THEN [bp |-> top.bp \o call.args[1].s,
                        m  |-> parse_nest_handler(call.args[2])]
                  ELSE top)

\* The module files being walked, the innermost first: those of the
\* pending returns of visit_module_router.
Returns == SelectSeq(work, LAMBDA task : task.t = "restore")

\* The qualifier in force before any module file is entered.
InitialModule == extract_module_from_path(world.handler_file)

\* C25: during the walk the context stack is the one pushed by the nest and
\* merge calls being interpreted and by no call that is over, the module
\* qualifier is the one of the innermost module file being walked, and each
\* pending return of visit_module_router holds the qualifier in force
\* outside its file; so when a nest or merge call is over, however its
\* module file fared, the stack and the qualifier are those of before the
\* call.  After the walk the stack is empty and the qualifier the initial
\* one.
C25_ContextRestored ==
  /\ pc = "walk" =>
       /\ state_stack = StackOf(Enclosing)
       /\ current_module = IF Len(Returns) = 0 THEN InitialModule
                           ELSE extract_module_from_path(Returns[1].file)
       /\ \A k \in 1..Len(Returns) :
            Returns[k].old = IF k = Len(Returns) THEN InitialModule
                             ELSE extract_module_from_path(Returns[k + 1].file)
  /\ pc \in { "handlers", "models", "generate", "write", "done" } =>
       /\ state_stack = << >>
       /\ current_module = InitialModule

\* The call after a nest or merge is being interpreted, the module's file
\* having been walked without a router found in it, and the context is
\* empty again.
C25_Witness ==
  /\ pc = "walk"
  /\ Len(work) > 0 /\ work[1].t = "call" /\ work[1].e.m = MRoute
  /\ work[1].e.recv.k = "mcall" /\ work[1].e.recv.m \in { MNest, MMerge }
  /\ \E n \in 1..Len(diagnostics) : diagnostics[n].kind = "module file not found"
  /\ UPath("flat") \in DOMAIN world.files
  /\ state_stack = << >>
  /\ current_module = InitialModule


(***************************************************************************)
(* The walk of a tree whose module reference leads back into a file that   *)
(* is being walked (SpecLoop).  The recursion of the visitor has no bound  *)
(* of its own; the process stack has one, drawn here at MaxDepth pushed    *)
(* contexts.                                                               *)
(***************************************************************************)

\* The deepest context stack the process can hold.
MaxDepth == 4

\* The nest arm while the process stack holds.
NestBounded ==
  /\ Len(state_stack) < MaxDepth
  /\ Nest

\* The merge arm while the process stack holds.
MergeBounded ==
  /\ Len(state_stack) < MaxDepth
  /\ Merge

\* One more nest or merge than the process stack holds: the process is
\* ended by the stack overflow.
StackOverflow ==
  /\ Walking
  /\ work[1].t = "call"
  /\ work[1].e.m \in { MNest, MMerge }
  /\ Len(state_stack) >= MaxDepth
  /\ Fail("stack overflow")
  /\ UNCHANGED << world, walker, diagnostics, idx, tables, results, pure >>

\* A tree whose handler file src/main.rs holds the router; its chain
\* registers /b, nests the missing module x, nests module u, whose file
\* holds no router, and last refers to the module main with `back`: the
\* third candidate of that name is src/main.rs itself.
LoopWorld(back) ==
  [base_exists  |-> TRUE,
   handler_file |-> MainPath,
   model_files  |-> << FormPath, TypesPath >>,
   out_ok       |-> TRUE,
   files |-> FilesOf(
     { << MainPath, "ok",
          << FnH1,
             RouterFn(<< RouteShape(pB, sGet, sH1), NestShape(pX, sX), NestShape(pA, sU),
                         back >>) >> >>,
       << FormPath, "ok", FormItems >>,
       << TypesPath, "ok", TypesItems >>,
       << << SrcDir, sU \o DotRs >>, "ok", << FnH2 >> >> })]

LoopWorlds ==
  { LoopWorld(c) : c \in { NestShape(pA, sMain), NestShape(pEmpty, sMain), MergeShape(sMain) } }

InitLoop ==
  /\ world \in LoopWorlds
  /\ pc = "start"
  /\ err = ""
  /\ routes = << >>
  /\ state_stack = << >>
  /\ current_module = << >>
  /\ work = << >>
  /\ diagnostics = << >>
  /\ idx = 1
  /\ handlers = EmptyMap
  /\ module_handlers = EmptyMap
  /\ all_models = EmptyMap
  /\ openapi = None
  /\ output = None
  /\ fin = None
  /\ fout = None

NextLoop ==
  \/ StartWalk
  \/ VisitMethodCall
  \/ VisitOtherExpr
  \/ Route
  \/ NestBounded
  \/ MergeBounded
  \/ ModuleMissing
  \/ ModuleEnter
  \/ ModuleLeave
  \/ PopState
  \/ StackOverflow

SpecLoop == InitLoop /\ [][NextLoop]_vars

\* C26: no module file is entered while it is being walked, so the walk
\* never runs out of stack.
C26_NoFileReentered ==
  /\ \A j, k \in 1..Len(Returns) : Returns[j].file = Returns[k].file => j = k
  /\ err # "stack overflow"


(***************************************************************************)
(* Properties of the run (Spec), continued                                 *)
(***************************************************************************)

\* nest("/a", Router::new().route("/i", get(h1)))
InlineNest == CallShape(MNest, << Lit(pA), InlineRouter >>)

\* The trees whose primary chain holds that call, before or after
\* route("/b", get(h1)).
InlineNestWorlds ==
  { ComposedWorld(cfg) : cfg \in { c \in OddCfgs : InlineNest \in Range(c.calls) } }

\* C27: once the walk of a tree with nest("/a", <chain registering /i>) is
\* over, the route list holds the route /a/i.
C27_InlineNestKept ==
  (world \in InlineNestWorlds /\ pc \in { "handlers", "models", "generate", "write", "done" })
    => \E i \in 1..Len(routes) : routes[i].path = pA \o pI /\ routes[i].handler = sH1


\* The head of the work is a route or nest call of fewer than two
\* arguments, or a merge call of none.
AtShortCall ==
  /\ Walking
  /\ work[1].t = "call"
  /\ \/ work[1].e.m \in { MRoute, MNest } /\ Len(work[1].e.args) < 2
     \/ work[1].e.m = MMerge /\ Len(work[1].e.args) < 1

\* C28: a route, nest or merge call with too few arguments is passed over:
\* the walk goes on with what follows the call, the route list and the
\* context stack as they were.
C28_ShortCallSkipped ==
  [][ AtShortCall =>
        /\ pc' = "walk"
        /\ err' = err
        /\ routes' = routes
        /\ state_stack' = state_stack
        /\ work' = Tail(work) ]_vars



(***************************************************************************)
(* The schema of a generic field (SpecFields): parse_models on a model     *)
(* file that declares structure B with one field v of a type built from    *)
(* wrappers, then generate_schemas on the mapping it returns.              *)
(***************************************************************************)

\* The syntax tree of the type a tree of wrappers stands for.
RECURSIVE TypeOf(_)
TypeOf(tree) ==
  IF tree.w = "Name" THEN TName(tree.of)
  ELSE IF tree.w = "Vec" THEN TGen(TVec, << TypeOf(tree.of) >>)
  ELSE IF tree.w = "Option" THEN TGen(TOption, << TypeOf(tree.of) >>)
  ELSE TGen(THashMap, << TName(TString), TypeOf(tree.of) >>)

\* The model file: B with its field v, after structure A when with_a.
FieldFile(tree, shape, with_a) ==
  FileIn("ok",
    (IF with_a THEN << FormItems[1] >> ELSE << >>)
    \o << StructItem(sStructB, shape, << [name |-> sFv, ty |-> TypeOf(tree)] >>) >>)

\* The name parse_models gives the field.
FieldName(shape) == IF shape = "named" THEN sFv ELSE << "_", "0" >>

InitFields ==
  /\ AtRest
  /\ fin \in { Some([tree |-> t, shape |-> s, with_a |-> a]) :
                 t \in NestTrees(MaxNest), s \in { "named", "tuple" }, a \in BOOLEAN }
  /\ fout = None

SchemaOfFields ==
  /\ pc = "call"
  /\ fin.some
  /\ ~fout.some
  /\ LET models == parse_models(FieldFile(fin.v.tree, fin.v.shape, fin.v.with_a))
     IN  \E order \in Orders(DOMAIN models) :
           fout' = Some([models |-> models, schemas |-> generate_schemas(models, order)])
  /\ UNCHANGED << run, fin >>

NextFields == SchemaOfFields

SpecFields == InitFields /\ [][NextFields]_vars

\* The schema generate_schemas gave field v of B.
FieldSchema ==
  JGet(JGet(fout.v.schemas, sStructB).properties, FieldName(fin.v.shape))

\* C29: a field declared as Vec<T>, Option<T> or HashMap<String,V> has in
\* components.schemas the schema rust_type_to_openapi returns for the
\* compact spelling of its type.
C29_GenericFieldSchema ==
  (fout.some /\ fin.v.tree.w \in Wrappers)
    => FieldSchema = rust_type_to_openapi(Compact(fin.v.tree), fout.v.models)


\* The candidate handler files of route r's module that exist and declare
\* r's handler.
DeclaringCandidates(r) ==
  { p \in Range(HandlerFilePaths(r.module.v)) :
      p \in DOMAIN world.files /\ parse_handler(world.files[p], r.handler).some }

\* C30: once the handlers of all routes are resolved, every route whose
\* handler the primary file does not declare, and an existing candidate
\* handler file of its module does, has its handler in the handler table.
C30_AnyCandidateFinds ==
  pc \in { "models", "generate", "write", "done" } =>
    \A i \in 1..Len(routes) :
      ( /\ ~parse_handler(HandlerFile, routes[i].handler).some
        /\ routes[i].module.some
        /\ DeclaringCandidates(routes[i]) # {} )
      => routes[i].handler \in DOMAIN handlers

====
